---------------------------- MODULE CacheManager ----------------------------
(***************************************************************************)
(* ictv/storage/cache_manager.py: cache_file_at_url, called by the request *)
(* threads for the images of one channel.                                  *)
(*                                                                         *)
(* A URL is a name and an extension.  The table _name_to_lock maps a name  *)
(* to the lock in use for it; a lock is inserted by the first _get_lock    *)
(* that misses it and deleted by _release_lock.  Threads keep references   *)
(* to locks that are no longer in the table.  Each method's passage under  *)
(* _master_lock is one step; the acquisition of the name's lock is         *)
(* another, made after the master lock is given back.                      *)
(***************************************************************************)
EXTENDS Naturals, Sequences, FiniteSets

CONSTANTS
    Threads,    \* request threads
    Names,      \* URLs without their extension
    Exts,       \* extensions
    Failures,   \* exceptions met when the row is created and the download
                \* enqueued: "caught" (URLError, OSError), "uncaught"
    MaxLocks    \* bound on the locks created for a name (reached with failures only)

Url == [name : Names, ext : Exts]

ASSUME CacheAssumption == Failures \subseteq {"caught", "uncaught"} /\ MaxLocks \in Nat

VARIABLES
    rows,       \* rows[n]: extensions of the cached Asset rows with that name
    locks,      \* locks[n]: the locks created for n; TRUE when acquired
    current,    \* current[n]: index of the lock in _name_to_lock, 0 if none
    master,     \* TRUE when _master_lock is left held by an exception
    pc,         \* where each thread is in cache_file_at_url
    url,        \* the URL of its call
    ref,        \* the lock its _get_lock read in the table, until it returns
    failed,     \* history: the names a call for which has met an exception
    crowded     \* history: three calls for one name were once in progress

history == <<failed, crowded>>
cacheVars == <<rows, locks, current, master, pc, url, ref, history>>
lockVars == <<locks, current, master, ref>>

CacheInit ==
    /\ rows = [n \in Names |-> <<>>]
    /\ locks = [n \in Names |-> <<>>]
    /\ current = [n \in Names |-> 0]
    /\ master = FALSE
    /\ pc = [t \in Threads |-> "idle"]
    /\ url \in [Threads -> Url]
    /\ ref = [t \in Threads |-> 0]
    /\ failed = {}
    /\ crowded = FALSE

At(t, from, to) == pc[t] = from /\ pc' = [pc EXCEPT ![t] = to]

\* The call of t ends: it returns an asset or None, or raises.
Return(t, from) == At(t, from, "idle")

Call(t, u) ==
    /\ At(t, "idle", "select")
    /\ url' = [url EXCEPT ![t] = u]
    /\ crowded' = (crowded \/ \E v, w \in Threads :
                                /\ Cardinality({t, v, w}) = 3
                                /\ \A x \in {v, w} : pc[x] # "idle" /\ url[x].name = u.name)
    /\ UNCHANGED <<rows, lockVars, failed>>

\* The first look for a row, selectBy(...).getOne(None): the call returns the row if it
\* is alone, and raises SQLObjectIntegrityError if there are several.
Select(t) ==
    /\ IF rows[url[t].name] = <<>> THEN At(t, "select", "try") ELSE Return(t, "select")
    /\ UNCHANGED <<rows, lockVars, url, history>>

\* _get_lock, under the master lock: the lock of the name, created if missing.
LookUp(t, from, to) ==
    LET n == url[t].name IN
    /\ ~master
    /\ At(t, from, to)
    /\ IF current[n] = 0
       THEN /\ Len(locks[n]) < MaxLocks
            /\ locks' = [locks EXCEPT ![n] = Append(@, FALSE)]
            /\ current' = [current EXCEPT ![n] = Len(locks[n]) + 1]
            /\ ref' = [ref EXCEPT ![t] = Len(locks[n]) + 1]
       ELSE /\ ref' = [ref EXCEPT ![t] = current[n]]
            /\ UNCHANGED <<locks, current>>
    /\ UNCHANGED <<rows, master, url, history>>

\* Mutant of Acquire: the state of the lock is not tested.
AcquireAnyway(t, from, to) ==
    LET n == url[t].name IN
    /\ At(t, from, to)
    /\ locks' = [locks EXCEPT ![n][ref[t]] = TRUE]
    /\ ref' = [ref EXCEPT ![t] = 0]
    /\ UNCHANGED <<rows, current, master, url, history>>

\* lock.acquire, when the lock is free.
Acquire(t, from, to) ==
    LET n == url[t].name IN
    /\ At(t, from, to)
    /\ ~locks[n][ref[t]]
    /\ locks' = [locks EXCEPT ![n][ref[t]] = TRUE]
    /\ ref' = [ref EXCEPT ![t] = 0]
    /\ UNCHANGED <<rows, current, master, url, history>>

\* lock.acquire(blocking=False) of a lock that is taken.
Busy(t) ==
    /\ At(t, "tryAcquire", "block")
    /\ locks[url[t].name][ref[t]]
    /\ ref' = [ref EXCEPT ![t] = 0]
    /\ UNCHANGED <<rows, locks, current, master, url, history>>

\* Asset(...), by the thread that got the lock.  It has not looked again.
CreateRow(t) ==
    LET n == url[t].name IN
    /\ At(t, "create", "enqueue")
    /\ rows' = [rows EXCEPT ![n] = Append(@, url[t].ext)]
    /\ UNCHANGED <<lockVars, url, history>>

\* download_manager.enqueue_asset
EnqueueAsset(t) == At(t, "enqueue", "release") /\ UNCHANGED <<rows, lockVars, url, history>>

\* The exceptions of the two previous steps: `except (URLError, OSError)` frees the
\* lock and returns None, any other exception leaves the method at once.
Fail(t) ==
    /\ "caught" \in Failures
    /\ At(t, "create", "releaseFailed") \/ At(t, "enqueue", "releaseFailed")
    /\ failed' = failed \cup {url[t].name}
    /\ UNCHANGED <<rows, lockVars, url, crowded>>

Raise(t) ==
    /\ "uncaught" \in Failures
    /\ Return(t, "create") \/ Return(t, "enqueue")
    /\ failed' = failed \cup {url[t].name}
    /\ UNCHANGED <<rows, lockVars, url, crowded>>

\* Mutant of Release: the lock is freed and its entry is not deleted.
ReleaseKeepsEntry(t) ==
    LET n == url[t].name IN
    /\ ~master
    /\ IF current[n] = 0
       THEN UNCHANGED locks
       ELSE /\ locks[n][current[n]]
            /\ locks' = [locks EXCEPT ![n][current[n]] = FALSE]
    /\ UNCHANGED <<rows, current, master, ref, url, history>>

\* _release_lock: frees the lock that is in the table now, and deletes it.
Release(t) ==
    LET n == url[t].name IN
    /\ ~master
    /\ IF current[n] = 0
       THEN UNCHANGED <<locks, current>>
       ELSE /\ locks[n][current[n]]
            /\ locks' = [locks EXCEPT ![n][current[n]] = FALSE]
            /\ current' = [current EXCEPT ![n] = 0]
    /\ UNCHANGED <<rows, master, ref, url, history>>

\* Mutant of ReleaseOwn: the creator of the row returns without a release.
ReturnLocked(t) == Return(t, "release") /\ UNCHANGED <<rows, lockVars, url, history>>

ReleaseOwn(t) == Release(t) /\ Return(t, "release")
ReleaseFailed(t) == Release(t) /\ Return(t, "releaseFailed")
ReleaseWaiter(t) ==
    Release(t) /\ At(t, "releaseWaiter", "reselect")

\* The lock in the table was not acquired by anyone: release() raises RuntimeError
\* under the master lock, which nobody gives back.
ReleaseRaises(t) ==
    LET n == url[t].name IN
    /\ ~master
    /\ current[n] # 0
    /\ ~locks[n][current[n]]
    /\ \E from \in {"release", "releaseFailed", "releaseWaiter"} : Return(t, from)
    /\ master' = TRUE
    /\ UNCHANGED <<rows, locks, current, ref, url, history>>

\* The second look, by a thread that waited for the one that created the row.
\* It returns the row, None if there is none, and raises if there are several.
Reselect(t) ==
    /\ Return(t, "reselect")
    /\ UNCHANGED <<rows, lockVars, url, history>>

\* The steps of a call, but for the one that waits for a lock.
Progress(t) ==
    \/ Select(t) \/ LookUp(t, "try", "tryAcquire")
    \/ Acquire(t, "tryAcquire", "create") \/ Busy(t)
    \/ CreateRow(t) \/ EnqueueAsset(t) \/ Fail(t) \/ Raise(t)
    \/ ReleaseOwn(t) \/ ReleaseFailed(t) \/ ReleaseWaiter(t) \/ ReleaseRaises(t)
    \/ LookUp(t, "block", "blockAcquire") \/ Reselect(t)

Wait(t) == Acquire(t, "blockAcquire", "releaseWaiter")

CacheNext == \E t \in Threads : Progress(t) \/ Wait(t) \/ \E u \in Url : Call(t, u)

CacheSpec == CacheInit /\ [][CacheNext]_cacheVars

\* Threads run, and none of those that wait for a lock is always the one left out.
CacheFairness == \A t \in Threads : WF_cacheVars(Progress(t)) /\ SF_cacheVars(Wait(t))
CacheFairSpec == CacheSpec /\ CacheFairness

-----------------------------------------------------------------------------
(* Properties. *)

Stages == {"idle", "select", "try", "tryAcquire", "create", "enqueue", "release",
           "releaseFailed", "block", "blockAcquire", "releaseWaiter", "reselect"}

CacheTypeOK ==
    /\ rows \in [Names -> Seq(Exts)]
    /\ locks \in [Names -> Seq(BOOLEAN)]
    /\ current \in [Names -> Nat]
    /\ master \in BOOLEAN
    /\ pc \in [Threads -> Stages]
    /\ url \in [Threads -> Url]
    /\ ref \in [Threads -> Nat]
    /\ failed \in SUBSET Names
    /\ crowded \in BOOLEAN

For(t, n) == url[t].name = n

\* Until the first row of a name is visible, one thread at most is creating it: the
\* lock does serialise the first burst of requests for an image, as long as no call
\* for it meets an exception.
FirstCreatorIsAlone ==
    \A t, u \in Threads :
        /\ pc[t] = "create" /\ pc[u] = "create"
        /\ url[u].name = url[t].name
        /\ rows[url[t].name] = <<>>
        => t = u \/ url[t].name \in failed

\* A thread that waited for another finds the row that one was creating, whichever
\* lock it waited on, as long as no call for the image meets an exception.
WaiterFindsAsset ==
    \A t \in Threads :
        pc[t] \in {"releaseWaiter", "reselect"} =>
            rows[url[t].name] # <<>> \/ url[t].name \in failed

\* The two together: one thread creates the row of an image, and the others find it.
FirstBurstIsSerial == FirstCreatorIsAlone /\ WaiterFindsAsset

\* Why: before the first row, a name has had one lock, nobody has released it, and
\* those who wait do so because somebody creates the row.
FirstBurst(n) ==
    rows[n] = <<>> =>
        /\ Len(locks[n]) <= 1
        /\ current[n] = Len(locks[n])
        /\ \A t \in Threads : For(t, n) =>
            /\ pc[t] \in {"idle", "select", "try", "tryAcquire", "create", "block", "blockAcquire"}
            /\ pc[t] \in {"tryAcquire", "create", "block", "blockAcquire"} => Len(locks[n]) = 1
            /\ pc[t] \in {"tryAcquire", "blockAcquire"} => ref[t] = 1
            /\ pc[t] \in {"create", "block", "blockAcquire"} => locks[n][1]
        /\ \A t, u \in Threads :
            For(t, n) /\ For(u, n) /\ pc[t] = "create" /\ pc[u] = "create" => t = u

BurstInv == CacheTypeOK /\ \A n \in Names \ failed : FirstBurst(n)

InUse == {"tryAcquire", "create", "enqueue", "release", "releaseFailed", "block",
          "blockAcquire", "releaseWaiter"}

\* No lock is forgotten in the table: one that is there is in use by a call in progress,
\* or was left acquired by a call that raised.
NoLockForgotten ==
    \A n \in Names : current[n] # 0 =>
        \/ \E t \in Threads : For(t, n) /\ pc[t] \in InUse
        \/ n \in failed /\ locks[n][current[n]]

\* It does as long as no call has met an exception and no three calls for the same
\* image have been in progress at once, whatever the interleaving of two.
ReturnsUnlessCrowded ==
    \A t \in Threads :
        pc[t] # "idle" ~> (pc[t] = "idle" \/ crowded \/ failed # {})
=============================================================================

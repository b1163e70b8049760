-------------------------- MODULE DownloadManager --------------------------
(***************************************************************************)
(* The life of a cached asset: ictv/storage/download_manager.py, the path  *)
(* of ictv/models/asset.py and ictv/storage/cache_page.py.                 *)
(*                                                                         *)
(* Five kinds of threads meet on one row.  A request thread creates it and *)
(* enqueues its download; the event loop downloads it and runs the task's  *)
(* callback; the post-processing thread clears in_flight; other request    *)
(* threads read the row and write a link to it; and the browser that has   *)
(* the link /cache/<id> is served by CachePage.  Rows and files outlive    *)
(* the process, tasks and queues do not.                                   *)
(***************************************************************************)
EXTENDS Naturals, Sequences

CONSTANTS
    Assets,         \* the cached assets
    Readers,        \* browsers, each with the request threads that serve it
    MayFail,        \* whether a download may raise
    MaxRestarts     \* bound on the restarts of the application

ASSUME DownloadAssumption == MayFail \in BOOLEAN /\ MaxRestarts \in Nat

VARIABLES
    stage,      \* stage[a]: how far the thread that creates a has come
    inFlight,   \* inFlight[a]: the in_flight column of its row
    file,       \* file[a]: its file is in the storage
    task,       \* task[a]: its download
    callback,   \* callback[a]: the task's done callback
    pending,    \* the keys of _pending_tasks, which are never removed
    queue,      \* _post_process_queue
    reader,     \* reader[r]: where r is
    target,     \* target[r]: the asset it follows
    restarts,
    singleThread    \* one thread serves all requests (werkzeug's run_simple), or
                    \* mod_wsgi's pool does: chosen once and for all

rowVars == <<inFlight, file>>
loopVars == <<task, callback, queue>>
readerVars == <<reader, target>>
life == <<restarts, singleThread>>
vars == <<stage, rowVars, loopVars, pending, readerVars, life>>

Init ==
    /\ stage = [a \in Assets |-> "absent"]
    /\ inFlight = [a \in Assets |-> FALSE]
    /\ file = [a \in Assets |-> FALSE]
    /\ task = [a \in Assets |-> "none"]
    /\ callback = [a \in Assets |-> "none"]
    /\ pending = {}
    /\ queue = <<>>
    /\ reader = [r \in Readers |-> "idle"]
    /\ target \in [Readers -> Assets]
    /\ restarts = 0
    /\ singleThread \in BOOLEAN

-----------------------------------------------------------------------------
(* The request thread that found no row for the URL. *)

\* A single thread serves no request in the middle of enqueue_asset or CachePage.get.
ThreadFree ==
    singleThread =>
        /\ \A a \in Assets : stage[a] \in {"absent", "listed", "left"}
        /\ \A r \in Readers : reader[r] \notin {"waiting", "forcing"}

Advance(a, from, to) == stage[a] = from /\ stage' = [stage EXCEPT ![a] = to]

\* Asset(..., is_cached=True): in_flight is False by default.
Create(a) ==
    /\ ThreadFree
    /\ Advance(a, "absent", "created")
    /\ UNCHANGED <<rowVars, loopVars, pending, readerVars, life>>

\* enqueue_asset, line by line, for an asset that has no task.
Submit(a) ==
    /\ a \notin pending
    /\ Advance(a, "created", "submitted")
    /\ task' = [task EXCEPT ![a] = "running"]
    /\ UNCHANGED <<rowVars, callback, queue, pending, readerVars, life>>

\* Mutant of MarkInFlight: the row is not marked.
LeaveUnmarked(a) ==
    /\ Advance(a, "submitted", "marked")
    /\ UNCHANGED <<rowVars, loopVars, pending, readerVars, life>>

MarkInFlight(a) ==
    /\ Advance(a, "submitted", "marked")
    /\ inFlight' = [inFlight EXCEPT ![a] = TRUE]
    /\ UNCHANGED <<file, loopVars, pending, readerVars, life>>

\* enqueue_post_process_asset: task.result() raises when the download did.
RunCallback(a) ==
    /\ callback' = [callback EXCEPT ![a] = "called"]
    /\ queue' = IF task[a] = "done" THEN Append(queue, a) ELSE queue

\* Mutant of AddCallback: the callback of a task that is over is never called.
AddCallbackTooLate(a) ==
    /\ Advance(a, "marked", "watched")
    /\ callback' = [callback EXCEPT ![a] =
                        IF task[a] \in {"done", "failed"} THEN "called" ELSE "added"]
    /\ UNCHANGED <<rowVars, task, queue, pending, readerVars, life>>

\* add_done_callback calls the callback at once when the task is over.
AddCallback(a) ==
    /\ Advance(a, "marked", "watched")
    /\ IF task[a] \in {"done", "failed"}
       THEN RunCallback(a)
       ELSE callback' = [callback EXCEPT ![a] = "added"] /\ UNCHANGED queue
    /\ UNCHANGED <<rowVars, task, pending, readerVars, life>>

\* Mutant of Register: in_flight is set last.
RegisterAndMark(a) ==
    /\ Advance(a, "watched", "listed")
    /\ pending' = pending \cup {a}
    /\ inFlight' = [inFlight EXCEPT ![a] = TRUE]
    /\ UNCHANGED <<file, loopVars, readerVars, life>>

Register(a) ==
    /\ Advance(a, "watched", "listed")
    /\ pending' = pending \cup {a}
    /\ UNCHANGED <<rowVars, loopVars, readerVars, life>>

-----------------------------------------------------------------------------
(* The event loop and the post-processing thread. *)

\* _cache_asset writes the file and returns, or raises.
Download(a) ==
    /\ task[a] = "running"
    /\ task' = [task EXCEPT ![a] = "done"]
    /\ file' = [file EXCEPT ![a] = TRUE]
    /\ UNCHANGED <<stage, inFlight, callback, queue, pending, readerVars, life>>

DownloadRaises(a) ==
    /\ MayFail
    /\ task[a] = "running"
    /\ task' = [task EXCEPT ![a] = "failed"]
    /\ UNCHANGED <<stage, rowVars, callback, queue, pending, readerVars, life>>

\* The loop runs the callbacks after it has woken those who wait for the result.
Notify(a) ==
    /\ callback[a] = "added"
    /\ task[a] \in {"done", "failed"}
    /\ RunCallback(a)
    /\ UNCHANGED <<stage, rowVars, task, pending, readerVars, life>>

PostProcess ==
    /\ queue # <<>>
    /\ inFlight' = [inFlight EXCEPT ![Head(queue)] = FALSE]
    /\ queue' = Tail(queue)
    /\ UNCHANGED <<stage, file, task, callback, pending, readerVars, life>>

-----------------------------------------------------------------------------
(* The readers. *)

Move(r, from, to) ==
    /\ reader[r] = from
    /\ reader' = [reader EXCEPT ![r] = to]
    /\ UNCHANGED <<stage, file, loopVars, pending, life>>

\* A page is rendered with a link to the asset, or to its CachePage when the row that
\* was selected is in flight (cache_assets, Asset._get_path).
Link(r, a) ==
    /\ stage[a] # "absent"
    /\ ThreadFree
    /\ \E from \in {"idle", "served", "missing", "lost", "error"} :
         Move(r, from, IF inFlight[a] THEN "page" ELSE "file")
    /\ target' = [target EXCEPT ![r] = a]
    /\ UNCHANGED inFlight

\* The browser asks for the file, which is served at any time.
Fetch(r) ==
    /\ \/ file[target[r]] /\ (Move(r, "file", "served") \/ Move(r, "redirected", "served"))
       \/ ~file[target[r]] /\ (Move(r, "file", "missing") \/ Move(r, "redirected", "lost"))
    /\ UNCHANGED <<target, inFlight>>

\* CachePage.get: has_pending_task_for_asset.
OpenPage(r) ==
    /\ ThreadFree
    /\ Move(r, "page", IF target[r] \in pending THEN "waiting" ELSE "forcing")
    /\ UNCHANGED <<target, inFlight>>

\* Mutant of TaskOver: a task that failed never wakes those who wait for it.
TaskDone(r) ==
    /\ task[target[r]] = "done" /\ Move(r, "waiting", "forcing")
    /\ UNCHANGED <<target, inFlight>>

\* task.result() returns, or raises what the download raised.
TaskOver(r) ==
    /\ \/ task[target[r]] = "done" /\ Move(r, "waiting", "forcing")
       \/ task[target[r]] = "failed" /\ Move(r, "waiting", "error")
    /\ UNCHANGED <<target, inFlight>>

\* _get_path(force=True) and the redirection to it.
ForcePath(r) ==
    /\ Move(r, "forcing", "redirected")
    /\ inFlight' = [inFlight EXCEPT ![target[r]] = FALSE]
    /\ UNCHANGED target

-----------------------------------------------------------------------------
\* The application stops and starts again.  Requests in progress end; the browsers
\* keep the links they have.
Restart ==
    /\ restarts < MaxRestarts
    /\ restarts' = restarts + 1
    /\ stage' = [a \in Assets |-> IF stage[a] = "absent" THEN "absent" ELSE "left"]
    /\ task' = [a \in Assets |-> "none"]
    /\ callback' = [a \in Assets |-> "none"]
    /\ pending' = {}
    /\ queue' = <<>>
    /\ reader' = [r \in Readers |->
                    IF reader[r] \in {"waiting", "forcing"} THEN "error" ELSE reader[r]]
    /\ UNCHANGED <<rowVars, target, singleThread>>

Enqueue(a) == Create(a) \/ Submit(a) \/ MarkInFlight(a) \/ AddCallback(a) \/ Register(a)
Loop(a) == Download(a) \/ DownloadRaises(a) \/ Notify(a)
Serve(r) == OpenPage(r) \/ TaskOver(r) \/ ForcePath(r) \/ Fetch(r)

Next ==
    \/ \E a \in Assets : Enqueue(a) \/ Loop(a)
    \/ PostProcess
    \/ \E r \in Readers : Serve(r) \/ \E a \in Assets : Link(r, a)
    \/ Restart

Spec == Init /\ [][Next]_vars

\* The threads run and a download ends (aiohttp gives up after five minutes); nothing
\* makes a browser ask for a page.  A request that is made is served.
Fairness ==
    /\ \A a \in Assets : WF_vars(Enqueue(a) /\ stage[a] # "absent") /\ WF_vars(Loop(a))
    /\ WF_vars(PostProcess)
    /\ \A r \in Readers : WF_vars(Serve(r))

FairSpec == Spec /\ Fairness

-----------------------------------------------------------------------------
(* Properties. *)

EnqueueStages == {"created", "submitted", "marked", "watched", "listed"}

TypeOK ==
    /\ stage \in [Assets -> EnqueueStages \cup {"absent", "left"}]
    /\ inFlight \in [Assets -> BOOLEAN]
    /\ file \in [Assets -> BOOLEAN]
    /\ task \in [Assets -> {"none", "running", "done", "failed"}]
    /\ callback \in [Assets -> {"none", "added", "called"}]
    /\ pending \subseteq Assets
    /\ queue \in Seq(Assets)
    /\ reader \in [Readers -> {"idle", "file", "page", "waiting", "forcing", "redirected",
                               "served", "missing", "lost", "error"}]
    /\ target \in [Readers -> Assets]
    /\ restarts \in Nat
    /\ singleThread \in BOOLEAN

InQueue(a) == \E i \in 1..Len(queue) : queue[i] = a

\* An asset in flight is on its way: some thread of this process is still to clear
\* in_flight, unless its download raised or the process that started it is gone.
InFlightIsAccounted ==
    \A a \in Assets : inFlight[a] =>
        \/ stage[a] \in {"marked", "left"}
        \/ task[a] \in {"running", "failed"}
        \/ callback[a] = "added"
        \/ InQueue(a)

\* When one thread serves all requests, and until the application is restarted, no link
\* that is written in a page leads nowhere: neither a link to the file nor one to
\* CachePage, whenever the download ends or fails and the page is opened ("Waits for the
\* given asset to be downloaded. Redirects the user to the asset when done.", docstring of
\* CachePage.get; with more threads or after a restart the code does not keep this).
LinksAreServed ==
    singleThread /\ restarts = 0 => \A r \in Readers : reader[r] \notin {"missing", "lost"}

\* Why an asset in flight is accounted for: in_flight is set before the callback is
\* added, so that whoever clears it comes after.
InFlightInv ==
    /\ TypeOK
    /\ \A a \in Assets :
        /\ stage[a] \in {"absent", "created", "submitted"} => ~inFlight[a]
        /\ stage[a] \in {"absent", "created", "submitted", "marked"} => callback[a] = "none"
        /\ stage[a] \in {"watched", "listed"} => callback[a] # "none"
        /\ callback[a] = "called" =>
             \/ task[a] = "failed"
             \/ task[a] = "done" /\ (inFlight[a] => InQueue(a))

\* Why links are served when one thread serves the requests of one life of the
\* application: nobody sees a row whose task CachePage could not find.
LinkInv ==
    /\ \A a \in Assets :
        /\ stage[a] # "left"
        /\ stage[a] = "listed" => a \in pending
        /\ task[a] = "done" \/ InQueue(a) => file[a]
        /\ stage[a] \in {"marked", "watched", "listed"} /\ ~inFlight[a] => file[a]
    /\ \A r \in Readers :
        /\ reader[r] \notin {"missing", "lost"}
        /\ reader[r] \in {"file", "forcing", "redirected"} => file[target[r]]
        /\ reader[r] = "page" => stage[target[r]] = "listed"

\* An asset that was downloaded leaves the flight, whoever reads it meanwhile, unless
\* the process stops first: nothing takes up its post-processing after that.
DownloadedIsSettled ==
    \A a \in Assets : task[a] = "done" ~> ~inFlight[a] \/ stage[a] = "left"

\* A browser that asked for a CachePage is answered, whether the download ends, fails or
\* is cut short by a restart.
PageIsAnswered ==
    \A r \in Readers : reader[r] = "waiting" ~> reader[r] \in {"served", "lost", "error"}

\* "Prevent failures in the caching process to block asset in flight mode" (comment of
\* Asset._get_path): the asset of a failed download does not stay in flight when its
\* page is asked for.
FailureSettles ==
    \A r \in Readers :
        reader[r] = "waiting" /\ task[target[r]] = "failed" ~> ~inFlight[target[r]]
=============================================================================

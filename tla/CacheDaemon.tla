----------------------------- MODULE CacheDaemon -----------------------------
(***************************************************************************)
(* ictv/client/cache_daemon.py: the process that runs beside the browser   *)
(* of a dedicated client, and keeps on disk the last page of its screen    *)
(* with the assets the page uses.                                          *)
(*                                                                         *)
(* One thread serves the requests.  A version of an asset is the date it   *)
(* was modified, which is in the name of its file.  A version that is      *)
(* replaced is put on a list, and deleted when the next request starts.    *)
(* The disk outlives a reboot; the list and the requests do not.           *)
(***************************************************************************)
EXTENDS Naturals, FiniteSets, FiniteSetsExt

CONSTANTS
    Assets,         \* the assets a page may use
    MaxChanges,     \* bound on the changes made on the server
    Faults          \* "http": an asset of a capsule is answered by an error status;
                    \* "outside": one outside the sections of the page is, or one of a
                    \* capsule that has been removed already;
                    \* "offline": the client cannot reach the server;
                    \* "daemon": a call of the browser to this process fails;
                    \* "reboot": the client stops and starts again

ASSUME DaemonAssumption ==
    MaxChanges \in Nat /\ Faults \subseteq {"http", "outside", "offline", "daemon", "reboot"}

VARIABLES
    version,        \* version[a]: the version of a on the server
    used,           \* the assets the page of the screen uses on the server
    changes,        \* number of changes made on the server
    files,          \* the <<asset, version>> pairs on the disk
    page,           \* the pairs that the page on the disk refers to
    linked,         \* last_cached_page.html is there
    deleteList,     \* delete_list
    stage,          \* where caching_thread is
    todo,           \* the assets of the page it has not saved yet
    refs,           \* the pairs the page it prepares refers to
    status,         \* queue_status of the last request
    met             \* history: the faults met so far

serverVars == <<version, used, changes>>
diskVars == <<files, page, linked>>
threadVars == <<stage, todo, refs>>
daemonVars == <<serverVars, diskVars, deleteList, threadVars, status, met>>

DaemonInit ==
    /\ version = [a \in Assets |-> 1]
    /\ used \in SUBSET Assets
    /\ changes = 0
    /\ files = {}
    /\ page = {}
    /\ linked = FALSE
    /\ deleteList = {}
    /\ stage = "idle"
    /\ todo = {}
    /\ refs = {}
    /\ status = "none"
    /\ met = {}

Meets(fault) == fault \in Faults /\ met' = met \cup {fault}

\* The screen changes: an asset is modified, or the page uses other assets.
ServerChanges ==
    /\ changes < MaxChanges
    /\ changes' = changes + 1
    /\ \/ \E a \in Assets : version' = [version EXCEPT ![a] = @ + 1] /\ UNCHANGED used
       \/ \E S \in SUBSET Assets \ {used} : used' = S /\ UNCHANGED version
    /\ UNCHANGED <<diskVars, deleteList, threadVars, status, met>>

\* prepare_cached_version: the request is queued, or given up at once when no
\* interface of the client reaches the server (determine_mac_address).
Prepare ==
    /\ status # "notready"
    /\ \/ status' = "notready" /\ UNCHANGED met
       \/ status' = "failed" /\ Meets("offline")
    /\ UNCHANGED <<serverVars, diskVars, deleteList, threadVars>>

-----------------------------------------------------------------------------
(* caching_thread. *)

At(from, to) == stage = from /\ stage' = to

\* delete_files, then delete_list = [].
StartRequest ==
    /\ status = "notready"
    /\ At("idle", "fetch")
    /\ files' = files \ deleteList
    /\ deleteList' = {}
    /\ UNCHANGED <<serverVars, page, linked, todo, refs, status, met>>

\* cache_page has the page, which has slides; a page has no date of its own.
FetchPage ==
    /\ At("fetch", "assets")
    /\ todo' = used
    /\ refs' = {}
    /\ UNCHANGED <<serverVars, diskVars, deleteList, status, met>>

\* get_timestamp_for: the latest of the versions on the disk, or 0.
LocalVersions(a) == {f[2] : f \in {g \in files : g[1] = a}}
Timestamp(a) == Max(LocalVersions(a) \cup {0})

\* Mutant of SaveAsset: the files to delete are looked for after the new one is written.
SaveThenList(a) ==
    /\ stage = "assets"
    /\ a \in todo
    /\ todo' = todo \ {a}
    /\ refs' = refs \cup {<<a, version[a]>>}
    /\ IF version[a] = Timestamp(a)
       THEN UNCHANGED <<files, deleteList>>
       ELSE /\ files' = files \cup {<<a, version[a]>>}
            /\ deleteList' = deleteList \cup {f \in files' : f[1] = a}
    /\ UNCHANGED <<serverVars, page, linked, stage, status, met>>

\* Mutant of SaveAsset: answered by 304, any version on the disk is used.
SaveAnyVersion(a) ==
    /\ stage = "assets"
    /\ a \in todo
    /\ todo' = todo \ {a}
    /\ IF version[a] = Timestamp(a)
       THEN /\ \E v \in LocalVersions(a) : refs' = refs \cup {<<a, v>>}
            /\ UNCHANGED <<files, deleteList>>
       ELSE /\ refs' = refs \cup {<<a, version[a]>>}
            /\ deleteList' = deleteList \cup {f \in files : f[1] = a}
            /\ files' = files \cup {<<a, version[a]>>}
    /\ UNCHANGED <<serverVars, page, linked, stage, status, met>>

\* save_at, answered by 304 (the version on the disk is used) or by 200 (the new
\* version is written, and those on the disk are listed).
SaveAsset(a) ==
    /\ stage = "assets"
    /\ a \in todo
    /\ todo' = todo \ {a}
    /\ refs' = refs \cup {<<a, version[a]>>}
    /\ IF version[a] = Timestamp(a)
       THEN UNCHANGED <<files, deleteList>>
       ELSE /\ deleteList' = deleteList \cup {f \in files : f[1] = a}
            /\ files' = files \cup {<<a, version[a]>>}
    /\ UNCHANGED <<serverVars, page, linked, stage, status, met>>

\* HTTPError: update_url removes the capsule with the asset from the page, and with it
\* the assets that no other capsule uses, saved or not.
AssetFails(a) ==
    /\ Meets("http")
    /\ stage = "assets"
    /\ a \in todo
    /\ \E gone \in SUBSET Assets :
          /\ a \in gone
          /\ todo' = todo \ gone
          /\ refs' = {f \in refs : f[1] \notin gone}
    /\ UNCHANGED <<serverVars, diskVars, deleteList, stage, status>>

\* HTTPError for a style sheet or a script, which has no section around it, or for a slide
\* of a capsule that was removed: update_url or cache_page raises an error that is not
\* an OSError, and the bare except of caching_thread ends the request.
AssetAborts(a) ==
    /\ Meets("outside")
    /\ At("assets", "idle")
    /\ a \in todo
    /\ status' = "failed"
    /\ UNCHANGED <<serverVars, diskVars, deleteList, todo, refs>>

\* requests raises an OSError, for the page or for an asset: cache_page returns None,
\* and its caller raises TypeError.  What was saved and listed stays so.
ConnectionFails ==
    /\ Meets("offline")
    /\ At("fetch", "idle") \/ At("assets", "idle")
    /\ status' = "failed"
    /\ UNCHANGED <<serverVars, diskVars, deleteList, todo, refs>>

\* The page is written over the previous one, and the request is answered.
WritePage ==
    /\ At("assets", "unlink")
    /\ todo = {}
    /\ page' = refs
    /\ status' = "ready"
    /\ UNCHANGED <<serverVars, files, linked, deleteList, todo, refs, met>>

\* os.unlink(last_page_path), then os.symlink.
Unlink ==
    /\ At("unlink", "link")
    /\ linked' = FALSE
    /\ UNCHANGED <<serverVars, files, page, deleteList, todo, refs, status, met>>

Symlink ==
    /\ At("link", "idle")
    /\ linked' = TRUE
    /\ UNCHANGED <<serverVars, files, page, deleteList, todo, refs, status, met>>

\* The client stops and starts again, once: the disk is as it was.
Reboot ==
    /\ "reboot" \notin met
    /\ Meets("reboot")
    /\ deleteList' = {}
    /\ stage' = "idle"
    /\ todo' = {}
    /\ refs' = {}
    /\ status' = "none"
    /\ UNCHANGED <<serverVars, diskVars>>

CachingThread ==
    \/ StartRequest \/ FetchPage \/ WritePage \/ Unlink \/ Symlink
    \/ \E a \in Assets : SaveAsset(a) \/ AssetFails(a) \/ AssetAborts(a)
    \/ ConnectionFails

-----------------------------------------------------------------------------
(* Properties. *)

\* "A client that cannot fetch new content from the server will display the past content"
\* (doc/install_ictv_client.rst:6-7): the assets of the page on the disk are on the disk.
\* It fails once a request is cut short, which leaves on the list the files that it had
\* replaced, although the page still refers to them: the next request deletes them.
PastContentIsKept == page \subseteq files

\* The faults that cut a request short between two assets.
CutShort == {"offline", "outside"}

\* The assets of the page on the disk are on the disk, wherever the client is stopped and
\* whichever capsules are removed from a page, as long as no request was cut short.
PastContentUnlessCutShort == met \cap CutShort = {} => PastContentIsKept

\* The cache does not grow: of each asset, one version is not to be deleted, unless the
\* client was stopped, which forgets the list.
OneVersionUnlessReboot ==
    "reboot" \notin met => \A f, g \in files \ deleteList : f[1] = g[1] => f = g

\* The two together: what the faults may and may not do to the disk.
DiskIsKept == PastContentUnlessCutShort /\ OneVersionUnlessReboot
=============================================================================

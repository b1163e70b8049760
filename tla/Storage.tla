------------------------------- MODULE Storage -------------------------------
(***************************************************************************)
(* The assets of a plugin channel: rows of the table of assets             *)
(* (ictv/models/asset.py) and files (ictv/storage/storage_manager.py),     *)
(* made by separate steps of requests that interleave; the QR codes that   *)
(* PluginManager.cache_assets keeps as cached files, without the locks of  *)
(* cache_file_at_url; and CleanupScheduler (cache_manager.py), which once  *)
(* a day deletes the rows of the cached files that no request referred to  *)
(* during the day.                                                         *)
(*                                                                         *)
(* Days are abstracted to what the cleanup tells apart: whether a row was  *)
(* referred to today.                                                      *)
(***************************************************************************)
EXTENDS Naturals, FiniteSets

CONSTANTS
    Assets,     \* identifiers of assets; bound: how many are ever created
    Codes,      \* names of QR codes
    NoName,     \* of an uploaded file, or of an image of the web (see CacheManager)
    Requests,   \* request threads
    NoAsset

\* A row is cleaned up (it leaves its file), dropped by delete_all_assets (so does it), or
\* destroyed (it does not).
Row == [is : {"unused", "there", "cleaned", "dropped", "destroyed"},
        name : Codes \cup {NoName}, cached : BOOLEAN, fresh : BOOLEAN]

ASSUME StorageAssumption == NoName \notin Codes /\ NoAsset \notin Assets

VARIABLES
    row,        \* row[a]: the Row of an asset
    file,       \* assets whose file is on the disk
    linked,     \* assets that a content refers to by the path of their file
    cleanup,    \* when the next cleanup is: "today", "tomorrow" or "never"
    step,       \* what the request of a thread does next
    name,       \* the name it is about
    asset       \* the asset it has found or created

storageVars == <<row, file, linked, cleanup, step, name, asset>>

StorageInit ==
    /\ row = [a \in Assets |-> [is |-> "unused", name |-> NoName, cached |-> FALSE, fresh |-> FALSE]]
    /\ file = {} /\ linked = {}
    /\ cleanup = "today"
    /\ step = [r \in Requests |-> "idle"]
    /\ name = [r \in Requests |-> NoName]
    /\ asset = [r \in Requests |-> NoAsset]

Live(a) == row[a].is = "there"

\* The rows that a lookup of a cached name finds.
Cached(n) == {a \in Assets : Live(a) /\ row[a].name = n /\ row[a].cached}

Goes(r, from, to) == step[r] = from /\ step' = [step EXCEPT ![r] = to]

\* Uploads are not cached: a cached row without a name is that of an image of the web.
Sized(a) == row[a].name \in Codes \/ ~row[a].cached

\* Asset._get_path: a reference counts for the day, if the row is still there.
Refer(a) == IF Live(a) THEN [row EXCEPT ![a].fresh = TRUE] ELSE row

\* A DELETE of several rows, which sends no signal.
Deleting(A, becomes) ==
    [a \in Assets |-> IF a \in A THEN [row[a] EXCEPT !.is = becomes] ELSE row[a]]

Ends(r, from) ==
    /\ Goes(r, from, "idle")
    /\ name' = [name EXCEPT ![r] = NoName]
    /\ asset' = [asset EXCEPT ![r] = NoAsset]

-----------------------------------------------------------------------------
(* Requests. *)

\* A plugin stores a file,
Upload(r) ==
    /\ Goes(r, "idle", "create")
    /\ UNCHANGED <<row, file, linked, cleanup, name, asset>>

\* or a content with a QR code is rendered, whose cached image is looked for; two of them
\* are one too many for getOne, which raises.
FindCode(r, n) ==
    /\ step[r] = "idle" /\ Cardinality(Cached(n)) <= 1
    /\ name' = [name EXCEPT ![r] = n]
    /\ \/ Cached(n) = {} /\ Goes(r, "idle", "create") /\ UNCHANGED asset
       \/ \E a \in Cached(n) :
             Goes(r, "idle", "link") /\ asset' = [asset EXCEPT ![r] = a]
    /\ UNCHANGED <<row, file, linked, cleanup>>

\* create_asset
CreateAsset(r, a) ==
    /\ row[a].is = "unused"
    /\ Goes(r, "create", "write")
    /\ row' = [row EXCEPT ![a] = [is |-> "there", name |-> name[r], cached |-> FALSE, fresh |-> TRUE]]
    /\ asset' = [asset EXCEPT ![r] = a]
    /\ UNCHANGED <<file, linked, cleanup, name>>

\* write_to_asset_file, which asks for the path
WriteFile(r) ==
    /\ IF name[r] = NoName THEN Ends(r, "write")
                           ELSE Goes(r, "write", "mark") /\ UNCHANGED <<name, asset>>
    /\ row' = Refer(asset[r])
    /\ file' = file \cup {asset[r]}
    /\ UNCHANGED <<linked, cleanup>>

\* cache_file sets is_cached last.
MarkCached(r) ==
    /\ Goes(r, "mark", "link")
    /\ row' = IF Live(asset[r]) THEN [row EXCEPT ![asset[r]].cached = TRUE] ELSE row
    /\ UNCHANGED <<file, linked, cleanup, name, asset>>

\* The content refers to the path.
Link(r) ==
    /\ Ends(r, "link")
    /\ row' = Refer(asset[r])
    /\ linked' = linked \cup {asset[r]}
    /\ UNCHANGED <<file, cleanup>>

\* cache_file_at_url, for an image whose download fails: a row that is marked as cached, with
\* neither a file nor a size;
CacheRemote(a) ==
    /\ row[a].is = "unused"
    /\ row' = [row EXCEPT ![a] = [is |-> "there", name |-> NoName, cached |-> TRUE, fresh |-> TRUE]]
    /\ UNCHANGED <<file, linked, cleanup, step, name, asset>>

\* the page that asks for it again refers to it.
ReferRemote(a) ==
    /\ Live(a) /\ ~Sized(a)
    /\ row' = Refer(a)
    /\ UNCHANGED <<file, linked, cleanup, step, name, asset>>

\* The channel is deleted, or a plugin deletes its asset: the signal removes the file.
Destroy(a) ==
    /\ Live(a)
    /\ row' = [row EXCEPT ![a].is = "destroyed"]
    /\ file' = file \ {a}
    /\ UNCHANGED <<linked, cleanup, step, name, asset>>

\* delete_all_assets, which plugins may call.  Its docstring says "and corresponding files",
\* but deleteBy sends no signal, and only the signal removes a file.
DeleteAll ==
    /\ row' = Deleting({a \in Assets : Live(a)}, "dropped")
    /\ UNCHANGED <<file, linked, cleanup, step, name, asset>>

\* The application is stopped or dies, with its requests, and starts again: a cleanup is
\* run at once.
Restart ==
    /\ step' = [r \in Requests |-> "idle"]
    /\ name' = [r \in Requests |-> NoName]
    /\ asset' = [r \in Requests |-> NoAsset]
    /\ cleanup' = "today"
    /\ UNCHANGED <<row, file, linked>>

-----------------------------------------------------------------------------
(* The cleanup. *)

Unused == {a \in Assets : Live(a) /\ row[a].cached /\ ~row[a].fresh}

\* The sizes of the files are added before the rows are deleted; when none of them has one,
\* the sum is NULL, and int raises.
SumFails == Unused # {} /\ \A a \in Unused : ~Sized(a)

\* Mutants of Cleanup: the files are removed too; there is only one.
CleanupWithFiles ==
    /\ cleanup = "today" /\ ~SumFails
    /\ cleanup' = "tomorrow"
    /\ row' = Deleting(Unused, "cleaned")
    /\ file' = file \ Unused
    /\ UNCHANGED <<linked, step, name, asset>>

CleanupOnce ==
    /\ cleanup = "today" /\ ~SumFails
    /\ cleanup' = "done"
    /\ row' = Deleting(Unused, "cleaned")
    /\ UNCHANGED <<file, linked, step, name, asset>>

\* The next cleanup is scheduled for the evening of tomorrow.
Cleanup ==
    /\ cleanup = "today" /\ ~SumFails
    /\ cleanup' = "tomorrow"
    /\ row' = Deleting(Unused, "cleaned")
    /\ UNCHANGED <<file, linked, step, name, asset>>

\* Nothing handles the exception, which ends the thread of the scheduler.
CleanupRaises ==
    /\ cleanup = "today" /\ SumFails
    /\ cleanup' = "never"
    /\ UNCHANGED <<row, file, linked, step, name, asset>>

\* Midnight
NextDay ==
    /\ cleanup' = IF cleanup = "tomorrow" THEN "today" ELSE cleanup
    /\ row' = [a \in Assets |-> IF Live(a) THEN [row[a] EXCEPT !.fresh = FALSE] ELSE row[a]]
    /\ UNCHANGED <<file, linked, step, name, asset>>

-----------------------------------------------------------------------------

Continues(r) ==
    \/ \E a \in Assets : CreateAsset(r, a)
    \/ WriteFile(r) \/ MarkCached(r) \/ Link(r)

StorageNext ==
    \/ \E r \in Requests : Upload(r) \/ (\E n \in Codes : FindCode(r, n)) \/ Continues(r)
    \/ \E a \in Assets : Destroy(a) \/ CacheRemote(a) \/ ReferRemote(a)
    \/ DeleteAll \/ Restart \/ Cleanup \/ CleanupRaises \/ NextDay

StorageSpec == StorageInit /\ [][StorageNext]_storageVars

-----------------------------------------------------------------------------
(* Properties. *)

\* A path that a content refers to leads to a file, unless a channel or a plugin has deleted
\* the asset (whether the file is then there is left open: see DeleteAll): the row of a QR
\* code is found by others only when its file is written, crashes included, and the cleanup,
\* which may delete the row between its lookup and its use or while a cached content still
\* refers to it, leaves the file.
LinkedFilesStay ==
    \A a \in linked : a \in file \/ row[a].is \in {"dropped", "destroyed"}

Twins(n) == Cardinality(Cached(n)) > 1

\* Two requests that cache the same QR code at once leave two rows, and every content with
\* that code fails.  Since nobody can refer to them any more, they are gone after the
\* cleanup of the day after, unless the scheduler has died of a day when nothing but images
\* that could not be downloaded was to be cleaned up.
TwinsGo == \A n \in Codes : Twins(n) ~> (~Twins(n) \/ cleanup = "never")
=============================================================================

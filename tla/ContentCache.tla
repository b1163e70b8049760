---------------------------- MODULE ContentCache ----------------------------
(***************************************************************************)
(* The content of a channel and its cache: PluginManager.get_plugin_content*)
(* and invalidate_cache (ictv/plugin_manager/plugin_manager.py), as called *)
(* by the pages that render a screen or preview a channel, that configure  *)
(* a channel (ictv/pages/channels_page.py) and that force its update       *)
(* (ictv/pages/channel_page.py).                                           *)
(*                                                                         *)
(* The cache is a dictionary that the request threads share without a      *)
(* lock, and what it holds is not a copy: the capsules that one request    *)
(* post-processes are those that the others render.  A content is known by *)
(* the version of the channel that its plugin saw, and by the state of an  *)
(* image that refers to a file of the storage.                             *)
(***************************************************************************)
EXTENDS Naturals, Sequences

CONSTANTS
    Threads,    \* request threads
    Contents,   \* list objects returned by the plugin: one more than there are threads
    None,       \* none of those
    Validity,   \* cache_validity
    MaxTime,    \* bound: of the clock
    MaxChanges  \* bound: changes of what the plugin would return

ASSUME ContentAssumption ==
    /\ None \notin Contents
    /\ Validity \in Nat \ {0}   \* 0 would be no cache
    /\ MaxTime \in Nat /\ MaxChanges \in Nat

VARIABLES
    clock,
    changes,    \* when what the plugin would return changed; its length is the version
    cache,      \* the content in self.cache[channel.id], or None
    content,    \* of each object: its version, its retrieval_time, the state of its image,
                \* and (history) the time at which the row that it comes from was read
    pc,         \* what the thread does next
    loaded,     \* the version when it read the row of the channel, and the time
    now,        \* the time in get_plugin_content
    obj,        \* the content it works on, or None
    floor,      \* history: the version that an invalidation made visible
    owed,       \* history: floor when the request began
    swapped     \* history: a content was stored between its check and its use of the cache

requestVars == <<loaded, now, owed>>
vars == <<clock, changes, cache, content, pc, requestVars, obj, floor, swapped>>

Version == Len(changes)

\* A reference, nothing while its path is looked for, a path, or nothing for good.
Image == {"file", "none", "src", "lost"}

Unused == [version |-> 0, retrieval_time |-> 0, image |-> "file", read |-> 0]

Init ==
    /\ clock = 0
    /\ changes = <<>>
    /\ cache = None
    /\ content = [o \in Contents |-> Unused]
    /\ pc = [t \in Threads |-> "idle"]
    /\ loaded = [t \in Threads |-> [version |-> 0, time |-> 0]]
    /\ now = [t \in Threads |-> 0]
    /\ obj = [t \in Threads |-> None]
    /\ floor = 0
    /\ owed = [t \in Threads |-> 0]
    /\ swapped = [t \in Threads |-> FALSE]

Goto(t, from, to) == pc[t] = from /\ pc' = [pc EXCEPT ![t] = to]

\* The contents that are in the cache, or in the hands of a request; the others are collected.
InUse(c, f) == {c} \cup {f[t] : t \in Threads}
Collect == content' = [o \in Contents |-> IF o \in InUse(cache', obj') THEN content[o] ELSE Unused]

\* The request is over; what it worked with is forgotten.
End(t, from) ==
    /\ Goto(t, from, "idle")
    /\ obj' = [obj EXCEPT ![t] = None]
    /\ UNCHANGED cache /\ Collect
    /\ loaded' = [loaded EXCEPT ![t] = [version |-> 0, time |-> 0]]
    /\ now' = [now EXCEPT ![t] = 0]
    /\ owed' = [owed EXCEPT ![t] = 0]
    /\ swapped' = [swapped EXCEPT ![t] = FALSE]

-----------------------------------------------------------------------------
(* get_plugin_content. *)

\* The page reads the row of the channel, whose columns are kept as long as the request
\* holds it; other channels of the screen may come before this one.
Load(t) ==
    /\ Goto(t, "idle", "now")
    /\ loaded' = [loaded EXCEPT ![t] = [version |-> Version, time |-> clock]]
    /\ owed' = [owed EXCEPT ![t] = floor]
    /\ UNCHANGED <<clock, changes, cache, content, now, obj, floor, swapped>>

\* channel.id in self.cache and channel.cache_activated
InCache(t, activated) ==
    /\ Goto(t, "now", IF cache # None /\ activated THEN "fresh" ELSE "fetch")
    /\ now' = [now EXCEPT ![t] = clock]
    /\ UNCHANGED <<clock, changes, cache, content, loaded, owed, obj, floor, swapped>>

\* Mutant of Fresh: off by one.
FreshAtEnd(t) == content[cache].retrieval_time + Validity >= now[t]

Fresh(t) == content[cache].retrieval_time + Validity > now[t]

IsFresh(t) ==
    /\ cache # None
    /\ Goto(t, "fresh", IF Fresh(t) THEN "take" ELSE "fetch")
    /\ UNCHANGED <<clock, changes, cache, content, requestVars, obj, floor, swapped>>

Take(t) ==
    /\ cache # None
    /\ Goto(t, "take", "dereference")
    /\ obj' = [obj EXCEPT ![t] = cache]
    /\ UNCHANGED <<clock, changes, cache, content, requestVars, floor, swapped>>

\* The entry has been removed since it was found: a KeyError, which nobody catches.
EntryIsGone(t) ==
    /\ cache = None
    /\ pc[t] \in {"fresh", "take"} /\ End(t, pc[t])
    /\ UNCHANGED <<clock, changes, floor>>

\* plugin.get_content makes a content of the row that the request has read, and of what
\* it reads by itself.
Fetch(t, o, v) ==
    /\ o \notin InUse(cache, obj)
    /\ v \in loaded[t].version..Version
    /\ Goto(t, "fetch", "store")
    /\ obj' = [obj EXCEPT ![t] = o]
    /\ content' = [content EXCEPT ![o] =
            [version |-> v, retrieval_time |-> now[t], image |-> "file",
             read |-> loaded[t].time]]
    /\ UNCHANGED <<clock, changes, cache, requestVars, floor, swapped>>

\* MisconfiguredParameters, or any other exception: an empty content.
FetchFails(t) ==
    /\ End(t, "fetch")
    /\ UNCHANGED <<clock, changes, floor>>

Store(t) ==
    /\ Goto(t, "store", "dereference")
    /\ cache' = obj[t]
    /\ swapped' = [v \in Threads |-> swapped[v] \/ pc[v] = "take"]
    /\ UNCHANGED <<clock, changes, requestVars, obj, floor>>
    /\ Collect

\* dereference_assets takes the reference out of the content (other requests that render it
\* meanwhile find an image with neither reference nor path) ...
Dereference(t) ==
    LET o == obj[t] IN
    /\ Goto(t, "dereference", IF content[o].image = "file" THEN "path" ELSE "answer")
    /\ content' = IF content[o].image = "file" THEN [content EXCEPT ![o].image = "none"]
                  ELSE content
    /\ UNCHANGED <<clock, changes, cache, requestVars, obj, floor, swapped>>

\* ... and puts the path of the file into it;
AssetPath(t) ==
    /\ Goto(t, "path", "answer")
    /\ content' = [content EXCEPT ![obj[t]].image = "src"]
    /\ UNCHANGED <<clock, changes, cache, requestVars, obj, floor, swapped>>

\* if the asset is gone, the exception makes an empty content of this one, and leaves the
\* one in the cache without its reference.
AssetIsGone(t) ==
    /\ Goto(t, "path", "empty")
    /\ content' = [content EXCEPT ![obj[t]].image = "lost"]
    /\ UNCHANGED <<clock, changes, cache, requestVars, obj, floor, swapped>>

\* The page is rendered, with the content or without any.
Answer(t) ==
    /\ pc[t] \in {"answer", "empty"} /\ End(t, pc[t])
    /\ UNCHANGED <<clock, changes, floor>>

-----------------------------------------------------------------------------
(* What changes the content. *)

\* The feeds of the plugin, its capsules, or reset-config, which leaves the cache alone.
Change ==
    /\ Version < MaxChanges
    /\ changes' = Append(changes, clock)
    /\ UNCHANGED <<clock, cache, content, pc, requestVars, obj, floor, swapped>>

\* 'configure': the parameters are written, then the cache is invalidated.
Configure(t) ==
    /\ Version < MaxChanges
    /\ Goto(t, "idle", "invalidate")
    /\ changes' = Append(changes, clock)
    /\ UNCHANGED <<clock, cache, content, requestVars, obj, floor, swapped>>

\* ForceUpdateChannelPage.
ForceUpdate(t) ==
    /\ Goto(t, "idle", "invalidate")
    /\ UNCHANGED <<clock, changes, cache, content, requestVars, obj, floor, swapped>>

\* The thread may still store a content that is older than this version.
Behind(t) ==
    \/ pc[t] \in {"now", "fresh", "fetch"} /\ loaded[t].version < Version
    \/ pc[t] = "store" /\ content[obj[t]].version < Version

\* Mutant of InvalidateCache: only the cache of the plugin is.
InvalidateCacheOfPlugin(t) ==
    /\ Goto(t, "invalidate", "idle")
    /\ floor' = IF \E v \in Threads : Behind(v) THEN floor ELSE Version
    /\ UNCHANGED <<clock, changes, cache, content, requestVars, obj, swapped>>

InvalidateCache(t) ==
    /\ Goto(t, "invalidate", "idle")
    /\ cache' = None
    /\ floor' = IF \E v \in Threads : Behind(v) THEN floor ELSE Version
    /\ UNCHANGED <<clock, changes, requestVars, obj, swapped>>
    /\ Collect

Tick ==
    /\ clock < MaxTime
    /\ clock' = clock + 1
    /\ UNCHANGED <<changes, cache, content, pc, requestVars, obj, floor, swapped>>

Next ==
    \/ \E t \in Threads :
        \/ Load(t) \/ IsFresh(t) \/ Take(t) \/ EntryIsGone(t)
        \/ \E activated \in BOOLEAN : InCache(t, activated)
        \/ \E o \in Contents, v \in 0..Version : Fetch(t, o, v)
        \/ FetchFails(t) \/ Store(t)
        \/ Dereference(t) \/ AssetPath(t) \/ AssetIsGone(t) \/ Answer(t)
        \/ Configure(t) \/ ForceUpdate(t) \/ InvalidateCache(t)
    \/ Change \/ Tick

Spec == Init /\ [][Next]_vars

-----------------------------------------------------------------------------
(* Properties. *)

TypeOK ==
    /\ clock \in 0..MaxTime
    /\ changes \in Seq(0..MaxTime) /\ Version <= MaxChanges
    /\ cache \in Contents \cup {None}
    /\ content \in [Contents -> [version : 0..MaxChanges, retrieval_time : 0..MaxTime,
                                 image : Image, read : 0..MaxTime]]
    /\ pc \in [Threads -> {"idle", "now", "fresh", "take", "fetch", "store", "dereference",
                           "path", "answer", "empty", "invalidate"}]
    /\ loaded \in [Threads -> [version : 0..MaxChanges, time : 0..MaxTime]]
    /\ now \in [Threads -> 0..MaxTime]
    /\ obj \in [Threads -> Contents \cup {None}]
    /\ floor \in 0..MaxChanges
    /\ owed \in [Threads -> 0..MaxChanges]
    /\ swapped \in [Threads -> BOOLEAN]

\* What a request answers had not been out of date for longer than the validity of the
\* cache, plus the time that the request that computed it spent on other channels.  The
\* entry is checked and then read again: a slow request may store an older one in between.
StalenessIsBounded ==
    \A t \in Threads :
        pc[t] = "answer" /\ ~swapped[t] =>
            LET c == content[obj[t]] IN
                c.version < Version =>
                    changes[c.version + 1] + Validity + (c.retrieval_time - c.read) > now[t]

\* After a channel is configured or its update is forced, requests see the change, unless
\* one that had begun before the change was still to store what it had seen.
InvalidationHolds ==
    \A t \in Threads : pc[t] = "answer" => content[obj[t]].version >= owed[t]
=============================================================================

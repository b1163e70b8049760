---------------------------- MODULE ClientScreen ----------------------------
(***************************************************************************)
(* A dedicated client: ictv/client/static/bootstrap.html, in the Chromium  *)
(* that the client runs, above the cache daemon, with the slideshow that   *)
(* it shows in a frame (ictv/renderer/screen.html).                        *)
(*                                                                         *)
(* The script of bootstrap.html is a set of callbacks: answers of the      *)
(* daemon, timers, messages of the slideshow, ends of an animation.  One   *)
(* runs at a time, to its end.  All the pages it shows are the last page   *)
(* on the disk, as it is when the frame is loaded.                         *)
(***************************************************************************)
EXTENDS CacheDaemon

VARIABLES
    alreadyCaching,     \* already_caching
    transitioning,
    lastCachedUrl,      \* last_cached_url is set
    call,               \* the call to the daemon that is to be answered
    reading,            \* last_cached_page.html has been asked for
    retry,              \* prepare_cached_version is set to run in ten seconds
    slideshow,          \* the frame of the slideshow, and where the slideshow is
    shown,              \* the <<asset, version>> pairs it refers to
    nextSlideshow,      \* the frame that is to replace it
    nextShown           \* the pairs that one refers to

frameVars == <<slideshow, shown, nextSlideshow, nextShown>>
browserVars == <<alreadyCaching, transitioning, lastCachedUrl, call, reading, retry, frameVars>>
vars == <<daemonVars, browserVars>>

Prepared ==     \* prepare_cached_version
    IF alreadyCaching
    THEN UNCHANGED <<alreadyCaching, call>>
    ELSE alreadyCaching' = TRUE /\ call' = "prepare"

\* init: the page is opened, and asks for a first version.
BrowserStarts ==
    /\ alreadyCaching' = TRUE
    /\ call' = "prepare"
    /\ transitioning' = FALSE
    /\ lastCachedUrl' = FALSE
    /\ reading' = FALSE
    /\ retry' = FALSE
    /\ slideshow' = "none"
    /\ shown' = {}
    /\ nextSlideshow' = "none"
    /\ nextShown' = {}

Init ==
    /\ DaemonInit
    /\ alreadyCaching = TRUE
    /\ call = "prepare"
    /\ transitioning = FALSE
    /\ lastCachedUrl = FALSE
    /\ reading = FALSE
    /\ retry = FALSE
    /\ slideshow = "none"
    /\ shown = {}
    /\ nextSlideshow = "none"
    /\ nextShown = {}

\* transition_slideshow, which does nothing when a transition is under way.
TransitionSlideshow ==
    /\ transitioning' = TRUE
    /\ IF transitioning
       THEN UNCHANGED <<slideshow, nextSlideshow>>
       ELSE IF slideshow = "none"
            THEN slideshow' = "loading" /\ UNCHANGED nextSlideshow
            ELSE nextSlideshow' = "loading" /\ UNCHANGED slideshow

\* reloop: the slideshow starts again from its first slide; without one, the last page
\* that was cached is asked for.
Reloop ==
    IF slideshow = "none"
    THEN reading' = TRUE /\ UNCHANGED slideshow
    ELSE /\ slideshow' = IF slideshow = "ended" THEN "playing" ELSE slideshow
         /\ UNCHANGED reading

-----------------------------------------------------------------------------
(* The callbacks. *)

\* The daemon answers prepare_cached_version with the number of the request.
RequestMade ==
    /\ call = "prepare" /\ call' = "wait"
    /\ Prepare
    /\ UNCHANGED <<alreadyCaching, transitioning, lastCachedUrl, reading, retry, frameVars>>

\* The daemon does not answer one of the two calls.
DaemonUnreachable ==
    /\ call # "none" /\ call' = "none"
    /\ Meets("daemon")
    /\ alreadyCaching' = FALSE
    /\ Reloop
    /\ UNCHANGED <<serverVars, diskVars, deleteList, threadVars, status, transitioning,
                   lastCachedUrl, retry, shown, nextSlideshow, nextShown>>

\* Mutant of CachingDone: the flag is not reset.
CachingDoneBusy ==
    /\ call = "wait" /\ call' = "none"
    /\ status = "ready"
    /\ IF slideshow = "none"
       THEN TransitionSlideshow /\ UNCHANGED lastCachedUrl
       ELSE lastCachedUrl' = TRUE /\ UNCHANGED <<transitioning, slideshow, nextSlideshow>>
    /\ UNCHANGED <<daemonVars, alreadyCaching, reading, retry, shown, nextShown>>

\* wait_for_completion, when the status is a URL: it is shown at once if nothing is, and
\* at the end of the slideshow otherwise.
CachingDone ==
    /\ call = "wait" /\ call' = "none"
    /\ status = "ready"
    /\ alreadyCaching' = FALSE
    /\ IF slideshow = "none"
       THEN TransitionSlideshow /\ UNCHANGED lastCachedUrl
       ELSE lastCachedUrl' = TRUE /\ UNCHANGED <<transitioning, slideshow, nextSlideshow>>
    /\ UNCHANGED <<daemonVars, reading, retry, shown, nextShown>>

\* wait_for_completion, when the status is None (it is for a request of before a reboot).
CachingFailed ==
    /\ call = "wait" /\ call' = "none"
    /\ status \in {"failed", "none"}
    /\ alreadyCaching' = FALSE
    /\ Reloop
    /\ UNCHANGED <<daemonVars, transitioning, lastCachedUrl, retry, shown, nextSlideshow,
                   nextShown>>

\* The answer to the request of reloop.
LastPageRead ==
    /\ reading /\ reading' = FALSE
    /\ IF linked
       THEN TransitionSlideshow /\ UNCHANGED retry
       ELSE retry' = TRUE /\ UNCHANGED <<transitioning, slideshow, nextSlideshow>>
    /\ UNCHANGED <<daemonVars, alreadyCaching, lastCachedUrl, call, shown, nextShown>>

RetryTimer ==
    /\ retry /\ retry' = FALSE
    /\ Prepared
    /\ UNCHANGED <<daemonVars, transitioning, lastCachedUrl, reading, frameVars>>

\* The first slideshow is loaded and fades in.
FirstFadesIn ==
    /\ slideshow = "loading" /\ slideshow' = "playing"
    /\ shown' = page
    /\ transitioning' = FALSE
    /\ UNCHANGED <<daemonVars, alreadyCaching, lastCachedUrl, call, reading, retry,
                   nextSlideshow, nextShown>>

\* Mutant of EndOfSlideshow: the slideshow starts again while a version is prepared,
\* and the version that is ready is kept for later.
EndOfSlideshowAsks ==
    /\ slideshow = "playing"
    /\ Prepared
    /\ UNCHANGED <<daemonVars, transitioning, lastCachedUrl, reading, retry, frameVars>>

\* receiveMessage, 'endOfSlideshow': a version is asked for; the one that is ready is
\* shown, and if there is none the slideshow starts again.
EndOfSlideshow ==
    /\ slideshow = "playing"
    /\ Prepared
    /\ IF ~alreadyCaching /\ lastCachedUrl
       THEN /\ lastCachedUrl' = FALSE
            /\ transitioning' = TRUE
            /\ slideshow' = "ended"
            /\ nextSlideshow' = IF transitioning THEN nextSlideshow ELSE "loading"
       ELSE /\ slideshow' = IF transitioning THEN "ended" ELSE "playing"
            /\ UNCHANGED <<lastCachedUrl, transitioning, nextSlideshow>>
    /\ UNCHANGED <<daemonVars, reading, retry, shown, nextShown>>

\* The next slideshow is loaded, and posts 'loaded'.
NextLoads ==
    /\ nextSlideshow = "loading" /\ nextSlideshow' = "loaded"
    /\ nextShown' = page
    /\ UNCHANGED <<daemonVars, alreadyCaching, transitioning, lastCachedUrl, call, reading, retry,
                   slideshow, shown>>

\* Mutant of NextFadesIn: the end of the transition is not noted.
NextFadesInOnly ==
    /\ nextSlideshow = "loaded" /\ nextSlideshow' = "none"
    /\ slideshow' = "playing"
    /\ shown' = nextShown
    /\ nextShown' = {}
    /\ UNCHANGED <<daemonVars, alreadyCaching, transitioning, lastCachedUrl, call, reading, retry>>

\* receiveMessage, 'loaded': when the current slideshow has faded out, it is removed.
NextFadesIn ==
    /\ nextSlideshow = "loaded" /\ nextSlideshow' = "none"
    /\ slideshow' = "playing"
    /\ shown' = nextShown
    /\ nextShown' = {}
    /\ transitioning' = FALSE
    /\ UNCHANGED <<daemonVars, alreadyCaching, lastCachedUrl, call, reading, retry>>

-----------------------------------------------------------------------------

Callback ==
    \/ RequestMade \/ DaemonUnreachable \/ CachingDone \/ CachingFailed
    \/ LastPageRead \/ RetryTimer
    \/ FirstFadesIn \/ EndOfSlideshow \/ NextLoads \/ NextFadesIn

Next ==
    \/ (ServerChanges \/ CachingThread) /\ UNCHANGED browserVars
    \/ Callback
    \/ Reboot /\ BrowserStarts

Spec == Init /\ [][Next]_vars

\* The thread of the daemon runs and its requests end, the answers and the timers come,
\* the frames load, and a slideshow comes to its end.
Fairness ==
    /\ WF_vars(CachingThread /\ UNCHANGED browserVars)
    /\ WF_vars(RequestMade) /\ WF_vars(CachingDone \/ CachingFailed)
    /\ WF_vars(LastPageRead) /\ WF_vars(RetryTimer)
    /\ WF_vars(FirstFadesIn) /\ WF_vars(NextLoads) /\ WF_vars(NextFadesIn)
    /\ WF_vars(EndOfSlideshow)

FairSpec == Spec /\ Fairness

-----------------------------------------------------------------------------
(* Properties. *)

\* A slideshow that plays has its files, from its first slide to its last, although the
\* daemon deletes what it has replaced: as long as no request was cut short, and none was
\* made while another was under way (which the browser does when a call fails).
ShownIsKept ==
    met \cap (CutShort \cup {"daemon"}) = {} /\ slideshow = "playing" => shown \subseteq files

\* Of each asset, the pairs of Q have no older version than those of P.
NoOlder(P, Q) == \A f \in P, g \in Q : f[1] = g[1] => f[2] <= g[2]

\* The client never goes back: a page is replaced on the disk, and a slideshow on the
\* screen, by one that has no older version of an asset, whatever the faults, and
\* although versions that were replaced stay on the disk for a while.
NeverGoesBack == [][NoOlder(page, page') /\ NoOlder(shown, shown')]_vars

Current == {<<a, version[a]>> : a \in used}

\* Without faults, what is shown ends up being what is on the server.
UpToDate == <>[](met = {} => slideshow # "none" /\ shown = Current)

\* A client that has a last page plays a slideshow, whatever the faults: it shows the
\* past content when it cannot have the new one, and never stays on the last slide.
SomethingPlays == linked ~> slideshow = "playing" \/ ~linked
=============================================================================

-------------------------- MODULE ClientScreenProofs --------------------------
(***************************************************************************)
(* Proofs about screens: the dedicated client, of which CacheDaemon keeps  *)
(* the last page and its assets on disk and ClientScreen shows them; and   *)
(* Catalogue, the forms by which administrators set up screens, buildings  *)
(* and channels, which shares no state with it.                            *)
(***************************************************************************)
EXTENDS ClientScreen, Catalogue, WellFoundedInduction, TLAPS

-----------------------------------------------------------------------------
(* The invariants. *)

\* The pairs <<asset, version>> up to the versions on the server.
Pairs == {f \in Assets \X Nat : f[2] <= version[f[1]]}

Stages == {"idle", "fetch", "assets", "unlink", "link"}

DiskTypeOK ==
    /\ version \in [Assets -> Nat \ {0}]
    /\ used \in SUBSET Assets /\ todo \in SUBSET Assets
    /\ files \in SUBSET Pairs /\ deleteList \in SUBSET Pairs
    /\ page \in SUBSET Pairs /\ refs \in SUBSET Pairs
    /\ linked \in BOOLEAN
    /\ stage \in Stages
    /\ status \in {"none", "notready", "failed", "ready"}
    /\ met \in SUBSET {"http", "outside", "offline", "daemon", "reboot"}

\* Nobody is about to delete what the page on the disk refers to, except while the page that
\* replaces it is prepared.
PageInv == met \cap CutShort = {} =>
    /\ page \subseteq files
    /\ stage \notin {"fetch", "assets"} => page \cap deleteList = {}

\* A request lists the versions of the assets that it has looked at, but not the one it uses.
RequestInv ==
    /\ stage = "fetch" => deleteList = {}
    /\ stage = "assets" =>
          /\ refs \subseteq files /\ refs \cap deleteList = {}
          /\ \A f \in refs \cup deleteList : f[1] \notin todo

DiskInv == DiskTypeOK /\ PageInv /\ RequestInv /\ OneVersionUnlessReboot

\* The daemon has been asked, or is about to be asked, for a version: it will first delete
\* what it has listed.
Requested ==
    \/ call = "prepare"
    \/ call = "wait" /\ status = "notready" /\ stage \notin {"fetch", "assets"}

\* What a frame refers to outlives the next deletion, unless another slideshow is ready to
\* replace it at its end.
Safe(pairs) ==
    /\ pairs \subseteq files
    /\ Requested => pairs \cap deleteList = {}
    /\ call = "none" => lastCachedUrl \/ pairs \cap deleteList = {}

\* A version is asked for at a time.
CallInv ==
    /\ ~reading /\ ~retry
    /\ call \in {"none", "prepare", "wait"} /\ (alreadyCaching <=> call # "none")
    /\ call # "wait" => stage \notin {"fetch", "assets"} /\ status # "notready"
    /\ call = "wait" => status \in {"notready", "ready"}
    /\ stage \in {"fetch", "assets"} => status = "notready"

FrameInv ==
    /\ slideshow = "loading" => call = "none"
    /\ slideshow = "playing" => ~transitioning /\ nextSlideshow = "none" /\ Safe(shown)
    /\ slideshow \in {"none", "loading"} => nextSlideshow = "none"
    /\ nextSlideshow = "loaded" => Safe(nextShown)

ScreenInv == met \cap (CutShort \cup {"daemon"}) = {} => CallInv /\ FrameInv

IInv == DiskInv /\ ScreenInv

-----------------------------------------------------------------------------
(* The version that get_timestamp_for finds. *)

\* A set of naturals has a least element: < is well founded on them.
LEMMA LeastNat ==
    ASSUME NEW T \in SUBSET Nat, T # {}
    PROVE  \E x \in T : \A y \in T : x <= y
  <1> DEFINE R == {p \in Nat \X Nat : p[1] < p[2]}
  <1>1. IsWellFoundedOn(R, Nat)
    BY NatLessThanWellFounded DEF OpToRel
  <1>2. \A x, y \in Nat : <<x, y>> \in R <=> x < y
    OBVIOUS
  <1> HIDE DEF R
  <1>3. PICK x \in T : \A y \in T : ~ (<<y, x>> \in R)
    BY WFMin, <1>1
  <1>4. ASSUME NEW y \in T PROVE x <= y
    <2>1. x \in Nat /\ y \in Nat
      OBVIOUS
    <2>2. ~ (y < x)
      BY <1>2, <1>3, <2>1
    <2> QED BY <2>1, <2>2
  <1> QED BY <1>4

\* A bounded set of naturals has a greatest element: what is left under the bound has a least one.
LEMMA GreatestNat ==
    ASSUME NEW n \in Nat, NEW T \in SUBSET 0 .. n, T # {}
    PROVE  Max(T) \in T /\ \A y \in T : Max(T) >= y
  <1> DEFINE U == {n - x : x \in T}
  <1>1. U \in SUBSET Nat /\ U # {}
    <2>1. \A x \in T : x \in 0 .. n /\ n - x \in Nat
      OBVIOUS
    <2>2. PICK x \in T : TRUE
      OBVIOUS
    <2>3. n - x \in U
      OBVIOUS
    <2> QED BY <2>1, <2>3
  <1>2. PICK u \in U : \A v \in U : u <= v
    BY <1>1, LeastNat
  <1>3. PICK x \in T : u = n - x
    OBVIOUS
  <1>4. ASSUME NEW y \in T PROVE x >= y
    <2>1. n - y \in U
      OBVIOUS
    <2>2. n - x <= n - y
      BY <1>2, <1>3, <2>1
    <2> QED BY <2>2
  <1> QED BY <1>4 DEF Max

\* The version on the server is the latest one on the disk exactly if it is on the disk.
LEMMA LatestVersion ==
    ASSUME DiskTypeOK, NEW a \in Assets
    PROVE  version[a] = Timestamp(a) <=> <<a, version[a]>> \in files
  <1> DEFINE T == LocalVersions(a) \cup {0}
  <1>1. version[a] \in Nat \ {0}
    BY DEF DiskTypeOK
  <1>2. \A f \in files : f[1] = a => f = <<a, f[2]>> /\ f[2] \in 0 .. version[a]
    BY DEF DiskTypeOK, Pairs
  <1>3. LocalVersions(a) \subseteq 0 .. version[a]
    BY <1>2 DEF LocalVersions
  <1>4. T \in SUBSET 0 .. version[a] /\ T # {}
    BY <1>1, <1>3
  <1>5. Max(T) \in T /\ \A y \in T : Max(T) >= y
    <2> HIDE DEF T
    <2> QED BY <1>1, <1>4, GreatestNat
  <1>6. Max(T) \in 0 .. version[a] /\ (version[a] \in T => Max(T) >= version[a])
    <2> HIDE DEF T
    <2> QED BY <1>4, <1>5
  <1>7. version[a] \in T <=> version[a] \in LocalVersions(a)
    BY <1>1
  <1>8. version[a] \in LocalVersions(a) <=> <<a, version[a]>> \in files
    BY <1>2 DEF LocalVersions
  <1>9. Timestamp(a) = Max(T)
    BY DEF Timestamp
  <1>10. version[a] \in T => Max(T) = version[a]
    <2> HIDE DEF T
    <2> QED BY <1>1, <1>6
  <1> QED BY <1>5, <1>7, <1>8, <1>9, <1>10

-----------------------------------------------------------------------------
(* The daemon. *)

LEMMA DiskInvInit == DaemonInit => DiskInv
  <1> SUFFICES ASSUME DaemonInit PROVE DiskInv
    OBVIOUS
  <1>1. version \in [Assets -> Nat \ {0}]
    BY DEF DaemonInit
  <1>2. DiskTypeOK
    BY <1>1 DEF DaemonInit, DiskTypeOK, Stages
  <1> QED BY <1>2 DEF DaemonInit, DiskInv, PageInv, RequestInv, OneVersionUnlessReboot

LEMMA ServerKeepsDisk == ASSUME DiskInv, ServerChanges PROVE DiskInv'
  <1>1. version' \in [Assets -> Nat \ {0}] /\ used' \in SUBSET Assets
        /\ \A a \in Assets : version[a] <= version'[a]
    BY DEF DiskInv, DiskTypeOK, ServerChanges
  <1>2. Pairs \subseteq Pairs'
    BY <1>1 DEF DiskInv, DiskTypeOK, Pairs
  <1>3. UNCHANGED <<diskVars, deleteList, threadVars, status, met>>
    BY DEF ServerChanges
  <1>4. DiskTypeOK'
    BY <1>1, <1>2, <1>3 DEF DiskInv, DiskTypeOK, diskVars, threadVars
  <1> QED BY <1>3, <1>4 DEF DiskInv, PageInv, RequestInv, OneVersionUnlessReboot, diskVars, threadVars

LEMMA PrepareKeepsDisk == ASSUME DiskInv, Prepare PROVE DiskInv'
  BY DEF DiskInv, DiskTypeOK, PageInv, RequestInv, OneVersionUnlessReboot, Pairs, Prepare, Meets,
         serverVars, diskVars, threadVars

LEMMA DaemonFaultKeepsDisk ==
    ASSUME DiskInv, Meets("daemon"), UNCHANGED <<serverVars, diskVars, deleteList, threadVars, status>>
    PROVE  DiskInv'
  BY DEF DiskInv, DiskTypeOK, PageInv, RequestInv, OneVersionUnlessReboot, Pairs, Meets,
         serverVars, diskVars, threadVars

\* What is deleted are the versions listed: the page and one version of each asset stay.
LEMMA StartKeepsDisk == ASSUME DiskInv, StartRequest PROVE DiskInv'
  BY DEF DiskInv, DiskTypeOK, PageInv, RequestInv, OneVersionUnlessReboot, Pairs, Stages, StartRequest, At,
         serverVars

LEMMA FetchKeepsDisk == ASSUME DiskInv, FetchPage PROVE DiskInv'
  BY DEF DiskInv, DiskTypeOK, PageInv, RequestInv, OneVersionUnlessReboot, Pairs, Stages, FetchPage, At,
         serverVars, diskVars

\* The version saved was not listed, since the asset was still to do; the others now are.
LEMMA SaveKeepsDisk ==
    ASSUME DiskInv, NEW a \in Assets, SaveAsset(a)
    PROVE  DiskInv'
  <1> DEFINE new == <<a, version[a]>>
  <1>1. version[a] = Timestamp(a) <=> new \in files
    BY LatestVersion DEF DiskInv
  <1>2. /\ UNCHANGED <<serverVars, page, linked, stage, status, met>>
        /\ stage = "assets" /\ a \in todo /\ todo' = todo \ {a} /\ refs' = refs \cup {new}
    BY DEF SaveAsset
  <1>3. new \in Pairs /\ Pairs' = Pairs /\ new[1] = a
    BY <1>2 DEF DiskInv, DiskTypeOK, Pairs, serverVars
  <1>4. \A f \in refs \cup deleteList : f[1] # a
    BY <1>2 DEF DiskInv, RequestInv
  <1>5. CASE new \in files
    <2>1. UNCHANGED <<files, deleteList>>
      BY <1>1, <1>5 DEF SaveAsset
    <2>2. DiskTypeOK'
      BY <1>2, <1>3, <2>1 DEF DiskInv, DiskTypeOK, serverVars
    <2>3. RequestInv'
      BY <1>2, <1>3, <1>4, <1>5, <2>1 DEF DiskInv, RequestInv
    <2> QED BY <1>2, <2>1, <2>2, <2>3 DEF DiskInv, PageInv, OneVersionUnlessReboot
  <1>6. CASE new \notin files
    <2>1. /\ deleteList' = deleteList \cup {f \in files : f[1] = a}
          /\ files' = files \cup {new}
      BY <1>1, <1>6 DEF SaveAsset
    <2>2. DiskTypeOK'
      BY <1>2, <1>3, <2>1 DEF DiskInv, DiskTypeOK, serverVars
    <2>3. RequestInv'
      BY <1>2, <1>3, <1>4, <1>6, <2>1 DEF DiskInv, RequestInv
    <2>4. PageInv'
      BY <1>2, <2>1 DEF DiskInv, PageInv
    <2>5. OneVersionUnlessReboot'
      <3> SUFFICES ASSUME "reboot" \notin met, NEW f \in (files \ deleteList)', NEW g \in (files \ deleteList)',
                          f[1] = g[1]
                   PROVE  f = g
        BY <1>2 DEF OneVersionUnlessReboot
      <3>1. \A h \in (files \ deleteList)' : h = new \/ (h \in files \ deleteList /\ h[1] # a)
        BY <2>1
      <3> QED BY <1>3, <3>1 DEF DiskInv, OneVersionUnlessReboot
    <2> QED BY <2>2, <2>3, <2>4, <2>5 DEF DiskInv
  <1> QED BY <1>5, <1>6

LEMMA ThreadKeepsDisk == ASSUME DiskInv, CachingThread PROVE DiskInv'
  <1>1. ASSUME NEW a \in Assets, AssetFails(a) PROVE DiskInv'
    BY <1>1 DEF DiskInv, DiskTypeOK, PageInv, RequestInv, OneVersionUnlessReboot, Pairs, AssetFails, Meets,
                serverVars, diskVars
  <1>2. CASE ConnectionFails
    BY <1>2 DEF DiskInv, DiskTypeOK, PageInv, RequestInv, OneVersionUnlessReboot, Pairs, Stages, ConnectionFails,
                Meets, At, serverVars, diskVars, CutShort
  <1>3. ASSUME NEW a \in Assets, AssetAborts(a) PROVE DiskInv'
    BY <1>3 DEF DiskInv, DiskTypeOK, PageInv, RequestInv, OneVersionUnlessReboot, Pairs, Stages, AssetAborts,
                Meets, At, serverVars, diskVars, CutShort
  <1>4. CASE WritePage
    BY <1>4 DEF DiskInv, DiskTypeOK, PageInv, RequestInv, OneVersionUnlessReboot, Pairs, Stages, WritePage, At,
                serverVars
  <1>5. CASE Unlink \/ Symlink
    BY <1>5 DEF DiskInv, DiskTypeOK, PageInv, RequestInv, OneVersionUnlessReboot, Pairs, Stages, Unlink, Symlink,
                At, serverVars
  <1> QED BY <1>1, <1>2, <1>3, <1>4, <1>5, StartKeepsDisk, FetchKeepsDisk, SaveKeepsDisk DEF CachingThread

LEMMA RebootKeepsDisk == ASSUME DiskInv, Reboot PROVE DiskInv'
  BY DEF DiskInv, DiskTypeOK, PageInv, RequestInv, OneVersionUnlessReboot, Pairs, Stages, Reboot, Meets,
         serverVars, diskVars

\* The callbacks of the browser touch the disk in no other way than by asking for a version.
LEMMA DiskInvStep == DiskInv /\ [Next]_vars => DiskInv'
  <1> SUFFICES ASSUME DiskInv, [Next]_vars PROVE DiskInv'
    OBVIOUS
  <1>1. ASSUME UNCHANGED daemonVars PROVE DiskInv'
    BY <1>1 DEF DiskInv, DiskTypeOK, PageInv, RequestInv, OneVersionUnlessReboot, Pairs, daemonVars,
                serverVars, diskVars, threadVars
  <1>2. CASE Callback
    <2>1. CASE RequestMade
      BY <2>1, PrepareKeepsDisk DEF RequestMade
    <2>2. CASE DaemonUnreachable
      BY <2>2, DaemonFaultKeepsDisk DEF DaemonUnreachable
    <2>3. CASE \/ CachingDone \/ CachingFailed \/ LastPageRead \/ RetryTimer
              \/ FirstFadesIn \/ EndOfSlideshow \/ NextLoads \/ NextFadesIn
      BY <1>1, <2>3 DEF CachingDone, CachingFailed, LastPageRead, RetryTimer, FirstFadesIn, EndOfSlideshow,
                        NextLoads, NextFadesIn
    <2> QED BY <1>2, <2>1, <2>2, <2>3 DEF Callback
  <1>3. CASE UNCHANGED vars
    BY <1>1, <1>3 DEF vars
  <1> QED BY <1>2, <1>3, ServerKeepsDisk, ThreadKeepsDisk, RebootKeepsDisk DEF Next

\* The last page and its assets stay on the disk, and of each asset one version (DiskIsKept),
\* for any number of assets and of changes on the server, wherever the client stops and whichever
\* capsules are removed, until a request is cut short.
THEOREM DiskKept == Spec => []DiskIsKept
  <1>1. Init => DiskInv
    BY DiskInvInit DEF Init
  <1>2. DiskInv => DiskIsKept
    BY DEF DiskInv, PageInv, DiskIsKept, PastContentUnlessCutShort, PastContentIsKept
  <1> QED BY <1>1, <1>2, DiskInvStep, PTL DEF Spec

-----------------------------------------------------------------------------
(* The browser. *)

LEMMA ScreenInvInit == Init => ScreenInv
  BY DEF Init, DaemonInit, ScreenInv, CallInv, FrameInv, Safe, Requested

\* The faults met are never forgotten.
LEMMA FaultsStay == [Next]_vars => met \subseteq met'
  BY DEF Next, ServerChanges, CachingThread, StartRequest, FetchPage, SaveAsset, AssetFails, AssetAborts, ConnectionFails,
         WritePage, Unlink, Symlink, Reboot, Meets, Callback, RequestMade, Prepare, DaemonUnreachable,
         CachingDone, CachingFailed, LastPageRead, RetryTimer, FirstFadesIn, EndOfSlideshow, NextLoads,
         NextFadesIn, vars, daemonVars

\* A deletion spares what is shown, and what is about to be; from then on until the answer the
\* daemon deletes nothing.
LEMMA ThreadKeepsScreen ==
    ASSUME DiskInv, CallInv, FrameInv, CachingThread, UNCHANGED browserVars, met' \cap CutShort = {}
    PROVE  CallInv' /\ FrameInv'
  <1> USE DEF browserVars, frameVars
  <1>1. CASE StartRequest
    BY <1>1 DEF StartRequest, At, CallInv, FrameInv, Safe, Requested
  <1>2. CASE FetchPage
    BY <1>2 DEF FetchPage, At, CallInv, FrameInv, Safe, Requested, diskVars
  <1>3. ASSUME NEW a \in Assets, SaveAsset(a) PROVE CallInv' /\ FrameInv'
    <2>1. files \subseteq files' /\ UNCHANGED <<stage, status>> /\ stage = "assets"
      BY <1>3 DEF SaveAsset
    <2> QED BY <2>1 DEF CallInv, FrameInv, Safe, Requested
  <1>4. ASSUME NEW a \in Assets, AssetFails(a) PROVE CallInv' /\ FrameInv'
    BY <1>4 DEF AssetFails, CallInv, FrameInv, Safe, Requested, diskVars
  <1>5. CASE ConnectionFails \/ \E a \in Assets : AssetAborts(a)
    BY <1>5 DEF ConnectionFails, AssetAborts, Meets, CutShort
  <1>6. CASE WritePage
    BY <1>6 DEF WritePage, At, CallInv, FrameInv, Safe, Requested
  <1>7. CASE Unlink \/ Symlink
    BY <1>7 DEF Unlink, Symlink, At, CallInv, FrameInv, Safe, Requested
  <1> QED BY <1>1, <1>2, <1>3, <1>4, <1>5, <1>6, <1>7 DEF CachingThread

\* A frame that is loaded has the page on the disk, which no request under way has listed.
LEMMA LoadedIsSafe ==
    ASSUME DiskInv, CallInv, met \cap CutShort = {}
    PROVE  Safe(page)
  BY DEF DiskInv, PageInv, CallInv, Safe, Requested

\* The answers of the daemon: the version that is ready is loaded, or waits for the end of the
\* slideshow.
LEMMA AnswersKeepScreen ==
    ASSUME DiskInv, CallInv, FrameInv, RequestMade \/ CachingDone \/ CachingFailed,
           met' \cap (CutShort \cup {"daemon"}) = {}
    PROVE  CallInv' /\ FrameInv'
  <1>1. CASE RequestMade
    BY <1>1 DEF RequestMade, Prepare, Meets, CutShort, CallInv, FrameInv, Safe, Requested, frameVars, diskVars,
                threadVars
  <1>2. CASE CachingDone
    BY <1>2 DEF CachingDone, TransitionSlideshow, CallInv, FrameInv, Safe, Requested, daemonVars, diskVars,
                threadVars
  <1>3. ~ CachingFailed
    BY DEF CachingFailed, CallInv
  <1> QED BY <1>1, <1>2, <1>3

\* A version is asked for at the end of a slideshow: either another is ready, and what was
\* shown is over, or what is shown is the last page.
LEMMA EndKeepsScreen ==
    ASSUME CallInv, FrameInv, EndOfSlideshow
    PROVE  CallInv' /\ FrameInv'
  <1>1. UNCHANGED <<files, deleteList, stage, status, reading, retry, shown, nextShown>>
        /\ slideshow = "playing" /\ ~transitioning /\ nextSlideshow = "none"
    BY DEF EndOfSlideshow, FrameInv, daemonVars, diskVars, threadVars
  <1>2. CASE ~alreadyCaching /\ lastCachedUrl
    BY <1>1, <1>2 DEF EndOfSlideshow, Prepared, CallInv, FrameInv, Safe, Requested
  <1>3. CASE ~(~alreadyCaching /\ lastCachedUrl)
    <2>1. slideshow' = "playing" /\ UNCHANGED <<lastCachedUrl, transitioning, nextSlideshow>> /\ Prepared
      BY <1>1, <1>3 DEF EndOfSlideshow
    <2> QED BY <1>1, <1>3, <2>1 DEF Prepared, CallInv, FrameInv, Safe, Requested
  <1> QED BY <1>2, <1>3

LEMMA FramesKeepScreen ==
    ASSUME DiskInv, CallInv, FrameInv, FirstFadesIn \/ NextLoads \/ NextFadesIn,
           met' \cap (CutShort \cup {"daemon"}) = {}
    PROVE  CallInv' /\ FrameInv'
  <1>1. UNCHANGED <<files, deleteList, page, stage, status, met, alreadyCaching, call, reading, retry, lastCachedUrl>>
    BY DEF FirstFadesIn, NextLoads, NextFadesIn, daemonVars, diskVars, threadVars
  <1>2. Safe(page)
    BY <1>1, LoadedIsSafe
  <1>3. CallInv'
    BY <1>1 DEF CallInv
  <1>4. CASE FirstFadesIn
    <2>1. shown' = page' /\ slideshow = "loading" /\ slideshow' = "playing" /\ transitioning' = FALSE
          /\ nextSlideshow' = nextSlideshow
      BY <1>1, <1>4 DEF FirstFadesIn
    <2>2. Safe(page)'
      BY <1>1, <1>2 DEF Safe, Requested
    <2> QED BY <1>3, <2>1, <2>2 DEF FrameInv, Safe
  <1>5. CASE NextLoads
    <2>1. nextShown' = page' /\ nextSlideshow = "loading" /\ UNCHANGED <<slideshow, shown, transitioning>>
      BY <1>1, <1>5 DEF NextLoads
    <2>2. Safe(page)'
      BY <1>1, <1>2 DEF Safe, Requested
    <2> QED BY <1>3, <2>1, <2>2 DEF FrameInv, Safe
  <1>6. CASE NextFadesIn
    <2>1. shown' = nextShown /\ nextSlideshow = "loaded" /\ slideshow' = "playing" /\ transitioning' = FALSE
          /\ nextSlideshow' = "none"
      BY <1>6 DEF NextFadesIn
    <2>2. Safe(shown)'
      BY <1>1, <2>1 DEF FrameInv, Safe, Requested
    <2> QED BY <1>3, <2>1, <2>2 DEF FrameInv
  <1> QED BY <1>3, <1>4, <1>5, <1>6

LEMMA ScreenInvStep == DiskInv /\ ScreenInv /\ [Next]_vars => ScreenInv'
  <1> SUFFICES ASSUME DiskInv, ScreenInv, [Next]_vars, met' \cap (CutShort \cup {"daemon"}) = {}
               PROVE  CallInv' /\ FrameInv'
    BY DEF ScreenInv
  <1>1. CallInv /\ FrameInv
    BY FaultsStay DEF ScreenInv
  <1>2. CASE ServerChanges /\ UNCHANGED browserVars
    BY <1>1, <1>2 DEF ServerChanges, browserVars, frameVars, diskVars, threadVars, CallInv, FrameInv, Safe, Requested
  <1>3. CASE CachingThread /\ UNCHANGED browserVars
    BY <1>1, <1>3, ThreadKeepsScreen
  <1>4. CASE Reboot /\ BrowserStarts
    BY <1>4 DEF Reboot, BrowserStarts, CallInv, FrameInv, Safe, Requested
  <1>5. CASE Callback
    <2>1. ~ DaemonUnreachable /\ ~ LastPageRead /\ ~ RetryTimer
      BY <1>1 DEF DaemonUnreachable, Meets, LastPageRead, RetryTimer, CallInv
    <2> QED BY <1>1, <1>5, <2>1, AnswersKeepScreen, EndKeepsScreen, FramesKeepScreen DEF Callback
  <1>6. CASE UNCHANGED vars
    BY <1>1, <1>6 DEF vars, daemonVars, browserVars, frameVars, diskVars, threadVars, CallInv, FrameInv, Safe, Requested
  <1> QED BY <1>2, <1>3, <1>4, <1>5, <1>6 DEF Next

\* A slideshow that plays has its files (ShownIsKept), however the requests of the daemon, the
\* ends of the slideshows and the loads of their frames interleave: what bootstrap.html asks the
\* daemon to delete is never what it goes on showing.
THEOREM ShownKept == Spec => []ShownIsKept
  <1>1. Init => IInv
    BY DiskInvInit, ScreenInvInit DEF Init, IInv
  <1>2. IInv /\ [Next]_vars => IInv'
    BY DiskInvStep, ScreenInvStep DEF IInv
  <1>3. IInv => ShownIsKept
    BY DEF IInv, ScreenInv, FrameInv, Safe, ShownIsKept
  <1> QED BY <1>1, <1>2, <1>3, PTL DEF Spec

-----------------------------------------------------------------------------
(* The versions that the client shows, one after the other. *)

\* A page on the disk, what plays and what is loaded to replace it are each of one version of
\* an asset, and none is older than the one before; nor is the page that is prepared.
VersionsInv ==
    /\ NoOlder(shown, shown) /\ NoOlder(nextShown, nextShown) /\ NoOlder(page, page)
    /\ NoOlder(shown, page) /\ NoOlder(nextShown, page) /\ NoOlder(shown, nextShown)
    /\ stage = "assets" => /\ NoOlder(refs, refs) /\ NoOlder(page, refs)
                           /\ NoOlder(shown, refs) /\ NoOlder(nextShown, refs)

FramesInv ==
    /\ shown \in SUBSET Pairs /\ nextShown \in SUBSET Pairs
    /\ slideshow \in {"none", "loading"} => nextSlideshow = "none"
    /\ slideshow = "loading" \/ nextSlideshow # "none" => transitioning
    /\ nextSlideshow # "loaded" => nextShown = {}

LEMMA VersionsInit == Init => FramesInv /\ VersionsInv
  BY DEF Init, DaemonInit, FramesInv, VersionsInv, NoOlder

LEMMA FramesStep == DiskInv /\ FramesInv /\ [Next]_vars => FramesInv'
  <1> SUFFICES ASSUME DiskInv, FramesInv, [Next]_vars PROVE FramesInv'
    OBVIOUS
  <1>1. Pairs \subseteq Pairs'
    <2>1. CASE version' = version
      BY <2>1 DEF Pairs
    <2>2. CASE version' # version
      <3>1. ServerChanges
        BY <2>2 DEF Next, vars, daemonVars, serverVars, CachingThread, StartRequest, FetchPage,
           WritePage, Unlink, Symlink, SaveAsset, AssetFails, AssetAborts, ConnectionFails, Reboot, Callback,
           RequestMade, Prepare, DaemonUnreachable, CachingDone, CachingFailed, LastPageRead,
           RetryTimer, FirstFadesIn, EndOfSlideshow, NextLoads, NextFadesIn
      <3>2. \A a \in Assets : version[a] \in Nat /\ version'[a] \in Nat /\ version[a] <= version'[a]
        BY <3>1 DEF ServerChanges, DiskInv, DiskTypeOK
      <3> QED BY <3>2 DEF Pairs
    <2> QED BY <2>1, <2>2
  <1>2. page \in SUBSET Pairs
    BY DEF DiskInv, DiskTypeOK
  <1>3. CASE Reboot /\ BrowserStarts
    BY <1>3 DEF BrowserStarts, FramesInv
  <1>4. CASE UNCHANGED browserVars
    BY <1>1, <1>4 DEF browserVars, frameVars, FramesInv
  <1>5. CASE Callback
    <2> USE <1>1, <1>2 DEF FramesInv
    <2>1. CASE RequestMade \/ RetryTimer
      BY <2>1 DEF RequestMade, RetryTimer, frameVars
    <2>2. CASE DaemonUnreachable \/ CachingFailed
      BY <2>2 DEF DaemonUnreachable, CachingFailed, Reloop
    <2>3. CASE CachingDone
      BY <2>3 DEF CachingDone, TransitionSlideshow
    <2>4. CASE LastPageRead
      BY <2>4 DEF LastPageRead, TransitionSlideshow
    <2>5. CASE FirstFadesIn
      BY <2>5 DEF FirstFadesIn
    <2>6. CASE EndOfSlideshow
      BY <2>6 DEF EndOfSlideshow
    <2>7. CASE NextLoads
      BY <2>7 DEF NextLoads
    <2>8. CASE NextFadesIn
      BY <2>8 DEF NextFadesIn
    <2> QED BY <1>5, <2>1, <2>2, <2>3, <2>4, <2>5, <2>6, <2>7, <2>8 DEF Callback
  <1>6. CASE UNCHANGED vars
    BY <1>4, <1>6 DEF vars
  <1> QED BY <1>3, <1>4, <1>5, <1>6 DEF Next

\* What is on the server is newer than anything the client knows.
LEMMA ServerIsNewest ==
  ASSUME DiskTypeOK, NEW P \in SUBSET Pairs, NEW a \in Assets
  PROVE  NoOlder(P, {<<a, version[a]>>})
  BY DEF Pairs, NoOlder

LEMMA SaveKeepsVersions ==
  ASSUME DiskInv, FramesInv, VersionsInv, NEW a \in Assets, SaveAsset(a),
         UNCHANGED <<shown, nextShown>>
  PROVE  VersionsInv'
  <1>1. /\ stage = "assets" /\ stage' = stage /\ page' = page /\ a \in todo
        /\ refs' = refs \cup {<<a, version[a]>>}
    BY DEF SaveAsset
  <1>2. ASSUME NEW P \in SUBSET Pairs, NoOlder(P, refs) PROVE NoOlder(P, refs')
    <2>1. NoOlder(P, {<<a, version[a]>>})
      BY ServerIsNewest DEF DiskInv
    <2> QED BY <1>1, <1>2, <2>1 DEF NoOlder
  <1>3. /\ NoOlder(page, refs') /\ NoOlder(shown, refs') /\ NoOlder(nextShown, refs')
        /\ NoOlder(refs, refs')
    BY <1>1, <1>2 DEF DiskInv, DiskTypeOK, FramesInv, VersionsInv
  <1>4. NoOlder(refs', refs')
    <2>1. \A f \in refs : f[1] # a
      BY <1>1 DEF DiskInv, RequestInv
    <2>2. version[a] \in Nat
      BY DEF DiskInv, DiskTypeOK
    <2>3. ASSUME NEW f \in refs', NEW g \in refs', f[1] = g[1] PROVE f[2] <= g[2]
      <3>1. CASE f \in refs
        BY <1>3, <2>3, <3>1 DEF NoOlder
      <3>2. CASE f = <<a, version[a]>>
        <4>1. g = <<a, version[a]>>
          BY <1>1, <2>1, <2>3, <3>2
        <4> QED BY <2>2, <3>2, <4>1
      <3> QED BY <1>1, <3>1, <3>2
    <2> QED BY <2>3 DEF NoOlder
  <1> QED BY <1>1, <1>3, <1>4 DEF VersionsInv

LEMMA VersionsStep == DiskInv /\ FramesInv /\ VersionsInv /\ [Next]_vars => VersionsInv'
  <1> SUFFICES ASSUME DiskInv, FramesInv, VersionsInv, [Next]_vars PROVE VersionsInv'
    OBVIOUS
  <1>1. CASE UNCHANGED <<page, shown, nextShown>> /\ (stage' = "assets" => stage = stage' /\ refs' = refs)
    BY <1>1 DEF VersionsInv
  <1>2. CASE CachingThread /\ UNCHANGED browserVars
    <2>1. UNCHANGED <<shown, nextShown>>
      BY <1>2 DEF browserVars, frameVars
    <2>2. CASE StartRequest \/ Unlink \/ Symlink \/ ConnectionFails \/ \E a \in Assets : AssetAborts(a)
      BY <1>1, <2>1, <2>2 DEF StartRequest, Unlink, Symlink, ConnectionFails, AssetAborts, At, diskVars
    <2>3. CASE FetchPage
      BY <2>1, <2>3 DEF FetchPage, diskVars, VersionsInv, NoOlder
    <2>4. CASE WritePage
      BY <2>1, <2>4 DEF WritePage, At, VersionsInv
    <2>5. CASE \E a \in Assets : SaveAsset(a)
      BY <2>1, <2>5, SaveKeepsVersions
    <2>6. CASE \E a \in Assets : AssetFails(a)
      <3>1. refs' \subseteq refs /\ page' = page /\ stage' = stage
        BY <2>6 DEF AssetFails, diskVars
      <3> QED BY <2>1, <3>1 DEF VersionsInv, NoOlder
    <2> QED BY <1>2, <2>2, <2>3, <2>4, <2>5, <2>6 DEF CachingThread
  <1>3. CASE ServerChanges /\ UNCHANGED browserVars
    BY <1>1, <1>3 DEF ServerChanges, diskVars, threadVars, browserVars, frameVars
  <1>4. CASE Reboot /\ BrowserStarts
    BY <1>4 DEF Reboot, BrowserStarts, diskVars, VersionsInv, NoOlder
  <1>5. CASE Callback
    <2>1. CASE \/ RequestMade \/ DaemonUnreachable \/ CachingDone \/ CachingFailed
               \/ LastPageRead \/ RetryTimer \/ EndOfSlideshow
      BY <1>1, <2>1 DEF RequestMade, Prepare, DaemonUnreachable, CachingDone, CachingFailed,
         LastPageRead, RetryTimer, EndOfSlideshow, daemonVars, diskVars, threadVars, frameVars
    <2>2. CASE FirstFadesIn
      <3>1. /\ shown' = page /\ nextShown = {} /\ nextShown' = {} /\ page' = page
            /\ stage' = stage /\ refs' = refs
        BY <2>2 DEF FirstFadesIn, FramesInv, daemonVars, diskVars, threadVars
      <3> QED BY <3>1 DEF VersionsInv, NoOlder
    <2>3. CASE NextLoads
      <3>1. /\ nextShown' = page /\ shown' = shown /\ page' = page
            /\ stage' = stage /\ refs' = refs
        BY <2>3 DEF NextLoads, daemonVars, diskVars, threadVars
      <3> QED BY <3>1 DEF VersionsInv
    <2>4. CASE NextFadesIn
      <3>1. /\ shown' = nextShown /\ nextShown' = {} /\ page' = page
            /\ stage' = stage /\ refs' = refs
        BY <2>4 DEF NextFadesIn, daemonVars, diskVars, threadVars
      <3> QED BY <3>1 DEF VersionsInv, NoOlder
    <2> QED BY <1>5, <2>1, <2>2, <2>3, <2>4 DEF Callback
  <1>6. CASE UNCHANGED vars
    BY <1>1, <1>6 DEF vars, daemonVars, browserVars, frameVars, diskVars, threadVars
  <1> QED BY <1>2, <1>3, <1>4, <1>5, <1>6 DEF Next

\* The client never goes back to an older version of an asset (NeverGoesBack), for any number
\* of assets and of changes, whatever the faults and the order of the callbacks: versions are
\* asked for one after the other, and a frame loads the last page that was written.
THEOREM NoVersionComesBack == Spec => NeverGoesBack
  <1>1. Init => DiskInv /\ FramesInv /\ VersionsInv
    BY DiskInvInit, VersionsInit DEF Init
  <1>2. DiskInv /\ FramesInv /\ VersionsInv /\ [Next]_vars => (DiskInv /\ FramesInv /\ VersionsInv)'
    BY DiskInvStep, FramesStep, VersionsStep
  <1>3. DiskInv /\ FramesInv /\ VersionsInv /\ [Next]_vars
            => [NoOlder(page, page') /\ NoOlder(shown, shown')]_vars
    <2> SUFFICES ASSUME FramesInv, VersionsInv, Next
                 PROVE  NoOlder(page, page') /\ NoOlder(shown, shown')
      OBVIOUS
    <2>1. page' = page \/ (stage = "assets" /\ page' = refs)
      BY DEF Next, CachingThread, ServerChanges, StartRequest, FetchPage, WritePage, Unlink, Symlink,
         SaveAsset, AssetFails, AssetAborts, ConnectionFails, At, Reboot, Callback, RequestMade, Prepare,
         DaemonUnreachable, CachingDone, CachingFailed, LastPageRead, RetryTimer, FirstFadesIn,
         EndOfSlideshow, NextLoads, NextFadesIn, daemonVars, diskVars
    <2>2. \/ shown' = shown \/ shown' = page \/ shown' = nextShown \/ shown' = {}
      BY DEF Next, Reboot, BrowserStarts, Callback, RequestMade, DaemonUnreachable, CachingDone,
         CachingFailed, LastPageRead, RetryTimer, FirstFadesIn, EndOfSlideshow, NextLoads,
         NextFadesIn, browserVars, frameVars
    <2>3. NoOlder(shown, {})
      BY DEF NoOlder
    <2> QED BY <2>1, <2>2, <2>3 DEF VersionsInv
  <1> QED BY <1>1, <1>2, <1>3, PTL DEF Spec, NeverGoesBack

-----------------------------------------------------------------------------
(* The forms of administrators: what the database keeps, and what they answer. *)

CatalogueSteps == {"idle", "create", "edit", "rollback", "building", "macs", "remove", "delete",
                   "destroy", "ok", "taken", "mac", "refused", "error"}

CatalogueTypeOK ==
    /\ row \in [Ids -> Row \cup {None, Gone}]
    /\ mac \in [Macs -> Screens \cup {None}]
    /\ pc \in [Threads -> CatalogueSteps]
    /\ form \in [Threads -> Forms \cup {None}]
    /\ before \in [Threads -> Row \cup {None, Gone}]
    /\ remove \in [Threads -> SUBSET Macs] /\ add \in [Threads -> SUBSET Macs]
    /\ disturbed \in [Threads -> BOOLEAN]

\* The constraints of the database: unique indexes, and the foreign key of screens.
Constraints ==
    /\ \A i, j \in Ids : Live(i) /\ Live(j) => ~Clash(i, row[i], j, row[j])
    /\ \A s \in Screens : Live(s) => row[s].in \in Buildings /\ Live(row[s].in)

\* The steps that each action takes, and the row that a request to edit has read.
Served(t) ==
    /\ pc[t] = "idle" <=> form[t] = None
    /\ pc[t] = "create" => form[t].action = "create"
    /\ pc[t] \in {"edit", "rollback", "building"} => form[t].action = "edit"
    /\ pc[t] = "rollback" => form[t].id \notin Screens
    /\ pc[t] = "building" => form[t].id \in Screens
    /\ pc[t] \in {"macs", "remove"} => form[t].action # "delete" /\ form[t].id \in Screens
    /\ pc[t] \in {"delete", "destroy", "refused"} => form[t].action = "delete"
    /\ pc[t] = "destroy" => form[t].id \in Buildings
    /\ form[t] # None /\ form[t].action = "edit" =>
            before[t] \in Row /\ row[form[t].id] # None

DatabaseInv == CatalogueTypeOK /\ Constraints /\ \A t \in Threads : Served(t)

\* What a request to create or to edit has written, when no other disturbed it.
Saving(t) == form[t] # None /\ form[t].action # "delete" /\ ~disturbed[t]

MacsLeft(t) ==
    /\ add[t] \subseteq form[t].macs
    /\ remove[t] \cap form[t].macs = {}
    /\ MacsOf(form[t].id) = (form[t].macs \ add[t]) \cup remove[t]

Saved(t) ==
    LET now == row[form[t].id]  new == form[t].new  old == before[t] IN
    /\ form[t].id \in Screens => Live(new.in)
    /\ form[t].action = "create" => old = None
    /\ pc[t] \in {"create", "edit", "rollback"} => now = old
    /\ pc[t] = "building" => now = [old EXCEPT !.name = new.name]
    /\ pc[t] \in {"macs", "remove", "ok", "mac"} => now = new
    /\ pc[t] = "remove" => MacsLeft(t)
    /\ pc[t] = "ok" /\ form[t].id \in Screens => MacsOf(form[t].id) = form[t].macs
    /\ pc[t] = "taken" =>
           \/ now = old
           \/ /\ form[t].id \in Screens /\ form[t].action = "edit"
              /\ new.name # old.name /\ new.in # old.in
              /\ now = [old EXCEPT !.name = new.name]
    /\ pc[t] # "error"

SavedInv == \A t \in Threads : Saving(t) => Saved(t)

CatalogueInv == DatabaseInv /\ SavedInv
\* What a form is.
LEMMA FormFacts ==
    ASSUME NEW f \in Forms
    PROVE  /\ f # None /\ f.action \in {"create", "edit", "delete"}
           /\ f.id \in Ids /\ f.new \in Row /\ f.macs \subseteq Macs
           /\ f.id \in Screens => f.new.in \in Buildings
           /\ f.action = "delete" => f.id \notin Channels
  <1>1. f \in Form /\ Forms \cap {None} = {}
    BY CatalogueAssumption
  <1> QED BY <1>1, CatalogueAssumption DEF Form

\* Rows, and identifiers, are neither None nor Gone.
LEMMA RowFacts ==
    /\ \A r \in Row : r # None /\ r # Gone
    /\ \A i \in Ids : i # None /\ i # Gone
    /\ None # Gone
    /\ Buildings \subseteq Ids /\ Screens \subseteq Ids /\ Channels \subseteq Ids
    /\ Buildings \cap Screens = {} /\ Channels \cap (Buildings \cup Screens) = {}
  <1>1. {None, Gone} \cap Row = {} /\ {None, Gone} \cap Ids = {}
    BY CatalogueAssumption
  <1> QED BY <1>1, CatalogueAssumption DEF Ids

LEMMA ClashSymmetric ==
    ASSUME NEW i, NEW r, NEW j, NEW q
    PROVE  Clash(i, r, j, q) <=> Clash(j, q, i, r)
  BY DEF Clash

\* A row written past the unique indexes and the foreign key keeps the constraints.
LEMMA WrittenConstraints ==
    ASSUME CatalogueTypeOK, Constraints, NEW i \in Ids, NEW r \in Row,
           i \in Screens => r.in \in Buildings,
           ~Taken(i, r), ~Orphan(i, r), row' = [row EXCEPT ![i] = r]
    PROVE  Constraints'
  <1>1. /\ row'[i] = r /\ Live(i)' /\ \A j \in Ids \ {i} : row'[j] = row[j] /\ (Live(j)' <=> Live(j))
        /\ \A j \in Ids : Live(j) => Live(j)'
    BY RowFacts DEF CatalogueTypeOK, Live
  <1>2. ASSUME NEW j \in Ids, NEW k \in Ids, Live(j)', Live(k)'
        PROVE  ~Clash(j, row'[j], k, row'[k])
    <2>1. CASE j = k
      BY <2>1 DEF Clash
    <2>2. CASE j = i /\ k # i
      BY <2>2, <1>1, <1>2 DEF Taken
    <2>3. CASE k = i /\ j # i
      <3>1. ~Clash(i, r, j, row[j])
        BY <2>3, <1>1, <1>2 DEF Taken
      <3> QED BY <3>1, <2>3, <1>1, ClashSymmetric
    <2>4. CASE j # i /\ k # i
      BY <2>4, <1>1, <1>2 DEF Constraints
    <2> QED BY <2>1, <2>2, <2>3, <2>4
  <1>3. ASSUME NEW s \in Screens, Live(s)' PROVE row'[s].in \in Buildings /\ Live(row[s].in)'
    <2>1. CASE s = i
      <3>1. r.in \in Buildings /\ Live(r.in) /\ r.in \in Ids
        BY <2>1, RowFacts DEF Orphan
      <3> QED BY <3>1, <2>1, <1>1
    <2>2. CASE s # i
      <3>1. s \in Ids /\ Live(s) /\ row'[s] = row[s]
        BY <2>2, <1>1, <1>3, RowFacts
      <3>2. row[s].in \in Buildings /\ Live(row[s].in) /\ row[s].in \in Ids
        BY <3>1, RowFacts DEF Constraints
      <3> QED BY <3>1, <3>2, <1>1
    <2> QED BY <2>1, <2>2
  <1> QED BY <1>2, <1>3 DEF Constraints

\* So does a row that is deleted, if it is not a building with screens.
LEMMA GoneConstraints ==
    ASSUME CatalogueTypeOK, Constraints, NEW i \in Ids, ScreensIn(i) = {} \/ i \notin Buildings,
           row' = [row EXCEPT ![i] = Gone]
    PROVE  Constraints'
  <1>1. /\ row'[i] = Gone /\ ~Live(i)'
        /\ \A j \in Ids \ {i} : row'[j] = row[j] /\ (Live(j)' <=> Live(j))
    BY RowFacts DEF CatalogueTypeOK, Live
  <1>2. ASSUME NEW j \in Ids, NEW k \in Ids, Live(j)', Live(k)'
        PROVE  ~Clash(j, row'[j], k, row'[k])
    BY <1>1, <1>2 DEF Constraints
  <1>3. ASSUME NEW s \in Screens, Live(s)' PROVE row'[s].in \in Buildings /\ Live(row[s].in)'
    <2>1. s \in Ids \ {i} /\ Live(s) /\ row'[s] = row[s]
      BY <1>1, <1>3, RowFacts
    <2>2. row[s].in \in Buildings /\ Live(row[s].in) /\ row[s].in \in Ids
      BY <2>1, RowFacts DEF Constraints
    <2>3. row[s].in # i
      BY <2>1, <2>2 DEF ScreensIn
    <2> QED BY <2>1, <2>2, <2>3, <1>1
  <1> QED BY <1>2, <1>3 DEF Constraints

LEMMA CatalogueInitInv == CatalogueInit => CatalogueInv
  <1> SUFFICES ASSUME CatalogueInit PROVE CatalogueInv
    OBVIOUS
  <1> USE DEF CatalogueInit
  <1>1. CatalogueTypeOK
    BY CatalogueAssumption DEF CatalogueTypeOK, CatalogueSteps
  <1>2. \A i \in Ids : Live(i) <=> i \in DOMAIN Initial
    BY CatalogueAssumption, RowFacts DEF Live
  <1>3. \A i \in DOMAIN Initial : i \in Ids /\ row[i] = Initial[i]
    BY CatalogueAssumption
  <1>4. ASSUME NEW i \in Ids, NEW j \in Ids, Live(i), Live(j) PROVE ~Clash(i, row[i], j, row[j])
    BY <1>2, <1>3, <1>4, CatalogueAssumption
  <1>5. ASSUME NEW s \in Screens, Live(s) PROVE row[s].in \in Buildings /\ Live(row[s].in)
    <2>1. s \in DOMAIN Initial /\ row[s] = Initial[s]
      BY <1>2, <1>3, <1>5, RowFacts
    <2>2. row[s].in \in Buildings /\ row[s].in \in DOMAIN Initial
      BY <2>1, CatalogueAssumption
    <2> QED BY <2>2, <1>2, RowFacts
  <1>6. ASSUME NEW t \in Threads PROVE Served(t) /\ ~Saving(t)
    BY DEF Served, Saving
  <1> QED BY <1>1, <1>4, <1>5, <1>6 DEF CatalogueInv, DatabaseInv, Constraints, SavedInv
\* What a step of t leaves to the other requests: their own variables and, to those that it
\* does not disturb, their row, their addresses, and the building of their form.
Spared(t) ==
    \A u \in Threads \ {t} :
        /\ pc'[u] = pc[u] /\ form'[u] = form[u] /\ before'[u] = before[u]
        /\ remove'[u] = remove[u] /\ add'[u] = add[u]
        /\ Saving(u)' =>
               /\ Saving(u)
               /\ row'[form[u].id] = row[form[u].id]
               /\ form[u].id \in Screens /\ Live(form[u].new.in) => Live(form[u].new.in)'
               /\ \A m \in Macs : mac'[m] = form[u].id <=> mac[m] = form[u].id

\* A row that is there is not forgotten.
RowsRemain == \A i \in Ids : row[i] # None => row'[i] # None

LEMMA SparedKeep ==
    ASSUME CatalogueInv, NEW t \in Threads, Spared(t), RowsRemain,
           NEW u \in Threads \ {t}
    PROVE  Served(u)' /\ (Saving(u)' => Saved(u)')
  <1>1. /\ pc'[u] = pc[u] /\ form'[u] = form[u] /\ before'[u] = before[u]
        /\ remove'[u] = remove[u] /\ add'[u] = add[u]
    BY DEF Spared
  <1>2. form[u] # None => form[u] \in Forms
    BY DEF CatalogueInv, DatabaseInv, CatalogueTypeOK
  <1>3. Served(u)
    BY DEF CatalogueInv, DatabaseInv
  <1>4. Served(u)'
    BY <1>1, <1>2, <1>3, FormFacts DEF Served, RowsRemain
  <1>5. ASSUME Saving(u)' PROVE Saved(u)'
    <2>1. /\ Saving(u) /\ row'[form[u].id] = row[form[u].id]
          /\ form[u].id \in Screens /\ Live(form[u].new.in) => Live(form[u].new.in)'
          /\ \A m \in Macs : mac'[m] = form[u].id <=> mac[m] = form[u].id
      BY <1>5 DEF Spared
    <2>2. Saved(u)
      BY <2>1 DEF CatalogueInv, SavedInv
    <2>3. MacsOf(form[u].id)' = MacsOf(form[u].id)
      BY <2>1, <1>1 DEF MacsOf
    <2>4. MacsLeft(u)' <=> MacsLeft(u)
      BY <2>3, <1>1 DEF MacsLeft
    <2>5. form[u].id \in Screens => Live(form[u].new.in)'
      BY <2>1, <2>2 DEF Saved
    <2> QED BY <2>1, <2>2, <2>3, <2>4, <2>5, <1>1 DEF Saved
  <1> QED BY <1>4, <1>5

\* What a request that is disturbed by no write of t knows of that write.
LEMMA DisturbSpares ==
    ASSUME CatalogueTypeOK, NEW t \in Threads, NEW S, NEW b, Disturb(t, S, b), form' = form
    PROVE  /\ disturbed'[t] = disturbed[t]
           /\ \A u \in Threads \ {t} : Saving(u)' =>
                  /\ Saving(u) /\ form[u] \in Forms
                  /\ S \cap ({form[u].id, form[u].new.in} \cup form[u].macs) = {}
           /\ disturbed' \in [Threads -> BOOLEAN]
  <1>1. disturbed' = [v \in Threads |->
            disturbed[v] \/ /\ v # t /\ form[v] # None
                            /\ \/ S \cap ({form[v].id, form[v].new.in} \cup form[v].macs) # {}
                               \/ form[v].action = "delete" /\ form[v].id = b]
    BY DEF Disturb
  <1>2. disturbed'[t] = disturbed[t]
    BY <1>1 DEF CatalogueTypeOK
  <1>3. disturbed' \in [Threads -> BOOLEAN]
    BY <1>1 DEF CatalogueTypeOK
  <1>4. ASSUME NEW u \in Threads \ {t}, Saving(u)'
        PROVE  /\ Saving(u) /\ form[u] \in Forms
               /\ S \cap ({form[u].id, form[u].new.in} \cup form[u].macs) = {}
    <2>1. form[u] # None /\ form[u].action # "delete" /\ ~disturbed'[u]
      BY <1>4 DEF Saving
    <2>2. ~(disturbed[u] \/ /\ u # t /\ form[u] # None
                            /\ \/ S \cap ({form[u].id, form[u].new.in} \cup form[u].macs) # {}
                               \/ form[u].action = "delete" /\ form[u].id = b)
      BY <1>1, <2>1, Zenon
    <2> QED BY <2>1, <2>2, <1>4 DEF Saving, CatalogueTypeOK
  <1> QED BY <1>2, <1>3, <1>4

\* Every statement on a row keeps the database as it must be, and tells those it disturbs.
LEMMA WriteStep ==
    ASSUME CatalogueInv, NEW t \in Threads, form[t] \in Forms,
           NEW r, row[form[t].id] # Gone => r \in Row /\ (form[t].id \in Screens => r.in \in Buildings),
           NEW from, NEW next \in CatalogueSteps, NEW refused \in CatalogueSteps,
           Write(t, from, r, next, refused), UNCHANGED <<mac, form, before, remove, add>>
    PROVE  /\ CatalogueTypeOK' /\ Constraints' /\ Spared(t) /\ RowsRemain
           /\ disturbed'[t] = disturbed[t]
           /\ \/ row[form[t].id] = Gone /\ row' = row /\ pc'[t] = next
              \/ row' = row /\ Taken(form[t].id, r) /\ pc'[t] = refused
              \/ row' = row /\ Orphan(form[t].id, r) /\ pc'[t] = "error"
              \/ /\ row' = [row EXCEPT ![form[t].id] = r] /\ pc'[t] = next
                 /\ r \in Row
  <1> DEFINE i == form[t].id
  <1>0. /\ CatalogueTypeOK /\ Constraints /\ i \in Ids
    BY FormFacts DEF CatalogueInv, DatabaseInv
  <1>1. ASSUME row' = row, disturbed' = disturbed, NEW to \in CatalogueSteps, Moves(t, from, to)
        PROVE  CatalogueTypeOK' /\ Constraints' /\ Spared(t) /\ RowsRemain /\ pc'[t] = to
    <2>1. CatalogueTypeOK' /\ pc'[t] = to
      BY <1>1, <1>0 DEF CatalogueTypeOK, Moves
    <2>2. \A j : Live(j)' <=> Live(j)
      BY <1>1 DEF Live
    <2>4. Constraints'
      BY <1>1, <1>0, <2>2 DEF Constraints
    <2>5. RowsRemain
      BY <1>1 DEF RowsRemain
    <2>6. Spared(t)
      BY <1>1, <1>0, <2>2 DEF Spared, Moves, CatalogueTypeOK, Saving
    <2> QED BY <2>1, <2>4, <2>5, <2>6
  <1>2. CASE row[i] = Gone
    <2>1. Moves(t, from, next) /\ row' = row /\ disturbed' = disturbed
      BY <1>2 DEF Write
    <2> QED BY <2>1, <1>1, <1>2
  <1>3. CASE row[i] # Gone /\ (Taken(i, r) \/ Orphan(i, r))
    <2>1. /\ Moves(t, from, IF Taken(i, r) THEN refused ELSE "error")
          /\ row' = row /\ disturbed' = disturbed
      BY <1>3 DEF Write
    <2>2. CASE Taken(i, r)
      BY <2>1, <2>2, <1>1
    <2>3. CASE ~Taken(i, r)
      <3>1. Moves(t, from, "error") /\ "error" \in CatalogueSteps
        BY <2>1, <2>3 DEF CatalogueSteps
      <3> QED BY <3>1, <2>1, <2>3, <1>1, <1>3
    <2> QED BY <2>2, <2>3
  <1>4. CASE row[i] # Gone /\ ~Taken(i, r) /\ ~Orphan(i, r)
    <2>1. Moves(t, from, next) /\ row' = [row EXCEPT ![i] = r] /\ Disturb(t, {i}, r.in)
      BY <1>4 DEF Write
    <2>2. r \in Row /\ (i \in Screens => r.in \in Buildings)
      BY <1>4
    <2>3. Constraints'
      BY <2>1, <2>2, <1>0, <1>4, WrittenConstraints
    <2>4. /\ disturbed'[t] = disturbed[t] /\ disturbed' \in [Threads -> BOOLEAN]
          /\ \A u \in Threads \ {t} : Saving(u)' =>
                 /\ Saving(u) /\ form[u] \in Forms
                 /\ {i} \cap ({form[u].id, form[u].new.in} \cup form[u].macs) = {}
      BY <2>1, <1>0, DisturbSpares
    <2>5. CatalogueTypeOK' /\ pc'[t] = next
      BY <2>1, <2>2, <2>4, <1>0 DEF CatalogueTypeOK, Moves
    <2>6. /\ row'[i] = r /\ \A j : j # i => row'[j] = row[j]
          /\ r # None
      BY <2>1, <2>2, <1>0, RowFacts DEF CatalogueTypeOK
    <2>7. RowsRemain
      BY <2>6 DEF RowsRemain
    <2>8. Spared(t)
      <3> SUFFICES ASSUME NEW u \in Threads \ {t}
                   PROVE  /\ pc'[u] = pc[u]
                          /\ Saving(u)' =>
                               /\ Saving(u) /\ row'[form[u].id] = row[form[u].id]
                               /\ form[u].id \in Screens /\ Live(form[u].new.in) => Live(form[u].new.in)'
        BY DEF Spared
      <3>1. pc'[u] = pc[u]
        BY <2>1, <1>0 DEF Moves, CatalogueTypeOK
      <3>2. ASSUME Saving(u)'
            PROVE  /\ Saving(u) /\ row'[form[u].id] = row[form[u].id]
                   /\ row'[form[u].new.in] = row[form[u].new.in]
        BY <3>2, <2>4, <2>6
      <3> QED BY <3>1, <3>2 DEF Live
    <2> QED BY <2>1, <2>2, <2>3, <2>4, <2>5, <2>7, <2>8
  <1> QED BY <1>2, <1>3, <1>4
\* What each step of t comes to.
Keeps(t) ==
    /\ CatalogueTypeOK' /\ Constraints' /\ Spared(t) /\ RowsRemain
    /\ Served(t)' /\ (Saving(t)' => Saved(t)')

\* A request that is served, and what its invariant says of it.
LEMMA Serving ==
    ASSUME CatalogueInv, NEW t \in Threads, pc[t] # "idle"
    PROVE  /\ form[t] \in Forms /\ form[t].id \in Ids /\ Served(t)
           /\ Saving(t) => Saved(t)
  <1>1. Served(t) /\ form[t] # None
    BY DEF CatalogueInv, DatabaseInv, Served
  <1>2. form[t] \in Forms
    BY <1>1 DEF CatalogueInv, DatabaseInv, CatalogueTypeOK
  <1> QED BY <1>1, <1>2, FormFacts DEF CatalogueInv, SavedInv

\* What the building of the form of a screen is after the screen is written.
LEMMA BuildingStays ==
    ASSUME CatalogueTypeOK, NEW f \in Forms, f.id \in Screens, Live(f.new.in), NEW r,
           row' = row \/ row' = [row EXCEPT ![f.id] = r]
    PROVE  row'[f.new.in] \notin {None, Gone}
  <1>1. f.new.in \in Ids /\ f.new.in # f.id
    BY FormFacts, RowFacts
  <1> QED BY <1>1 DEF CatalogueTypeOK, Live

LEMMA CreateKeeps ==
    ASSUME CatalogueInv, NEW t \in Threads, Create(t)
    PROVE  Keeps(t)
  <1> DEFINE i == form[t].id  r == form[t].new
             next == IF i \in Screens THEN "macs" ELSE "ok"
  <1>1. pc[t] = "create" /\ Write(t, "create", r, next, "taken")
        /\ UNCHANGED <<mac, form, before, remove, add>>
    BY DEF Create
  <1>2. form[t] \in Forms /\ i \in Ids /\ Served(t) /\ (Saving(t) => Saved(t))
    BY <1>1, Serving
  <1>3. r \in Row /\ (i \in Screens => r.in \in Buildings) /\ form[t].action = "create"
    BY <1>1, <1>2, FormFacts DEF Served
  <1>4. next \in CatalogueSteps /\ "taken" \in CatalogueSteps
    BY DEF CatalogueSteps
  <1> HIDE DEF next
  <1>5. /\ CatalogueTypeOK' /\ Constraints' /\ Spared(t) /\ RowsRemain
        /\ disturbed'[t] = disturbed[t]
        /\ \/ row[i] = Gone /\ row' = row /\ pc'[t] = next
           \/ row' = row /\ Taken(i, r) /\ pc'[t] = "taken"
           \/ row' = row /\ Orphan(i, r) /\ pc'[t] = "error"
           \/ row' = [row EXCEPT ![i] = r] /\ pc'[t] = next
    BY <1>1, <1>2, <1>3, <1>4, WriteStep
  <1>6. /\ form'[t] = form[t] /\ before'[t] = before[t] /\ pc'[t] \in {next, "taken", "error"}
    BY <1>1, <1>5
  <1>7. Served(t)'
    BY <1>1, <1>2, <1>3, <1>6, FormFacts DEF Served, next
  <1>8. ASSUME Saving(t)' PROVE Saved(t)'
    <2>1. Saved(t) /\ row[i] = before[t] /\ before[t] = None /\ row[i] # Gone
      BY <1>1, <1>2, <1>3, <1>5, <1>6, <1>8, RowFacts DEF Saving, Saved
    <2>2. ~Orphan(i, r)
      BY <2>1 DEF Saved, Orphan
    <2>3. /\ CatalogueTypeOK
          /\ row' = row \/ row' = [row EXCEPT ![i] = r]
      BY <1>5 DEF CatalogueInv, DatabaseInv
    <2>4. i \in Screens => row'[r.in] \notin {None, Gone}
      BY <2>1, <2>3, <1>2, BuildingStays DEF Saved
    <2>5. CASE row' = row /\ pc'[t] = "taken"
      BY <2>5, <2>1, <2>4, <1>3, <1>6 DEF Saved, Live
    <2>6. CASE row' = [row EXCEPT ![i] = r] /\ pc'[t] = next
      <3>1. row'[i] = r
        BY <2>6, <2>3, <1>2 DEF CatalogueTypeOK
      <3> QED BY <2>6, <3>1, <2>1, <2>4, <1>3, <1>6 DEF Saved, Live, next
    <2> QED BY <2>1, <2>2, <2>5, <2>6, <1>5
  <1> QED BY <1>5, <1>7, <1>8 DEF Keeps

LEMMA EditKeeps ==
    ASSUME CatalogueInv, NEW t \in Threads, Edit(t)
    PROVE  Keeps(t)
  <1> DEFINE i == form[t].id  r == form[t].new
             refused == IF i \in Channels THEN "rollback" ELSE "taken"
  <1>1. pc[t] = "edit" /\ i \notin Screens /\ Write(t, "edit", r, "ok", refused)
        /\ UNCHANGED <<mac, form, before, remove, add>>
    BY DEF Edit
  <1>2. form[t] \in Forms /\ i \in Ids /\ Served(t) /\ (Saving(t) => Saved(t))
    BY <1>1, Serving
  <1>3. r \in Row /\ form[t].action = "edit" /\ before[t] \in Row /\ row[i] # None
    BY <1>1, <1>2, FormFacts DEF Served
  <1>4. refused \in CatalogueSteps /\ "ok" \in CatalogueSteps
    BY DEF CatalogueSteps
  <1> HIDE DEF refused
  <1>5. /\ CatalogueTypeOK' /\ Constraints' /\ Spared(t) /\ RowsRemain
        /\ disturbed'[t] = disturbed[t]
        /\ \/ row[i] = Gone /\ row' = row /\ pc'[t] = "ok"
           \/ row' = row /\ Taken(i, r) /\ pc'[t] = refused
           \/ row' = row /\ Orphan(i, r) /\ pc'[t] = "error"
           \/ row' = [row EXCEPT ![i] = r] /\ pc'[t] = "ok"
    BY <1>1, <1>2, <1>3, <1>4, WriteStep
  <1>6. /\ form'[t] = form[t] /\ before'[t] = before[t] /\ pc'[t] \in {"ok", refused, "error"}
    BY <1>1, <1>5
  <1>7. Served(t)'
    BY <1>1, <1>2, <1>3, <1>5, <1>6, FormFacts DEF Served, refused, RowsRemain
  <1>8. ASSUME Saving(t)' PROVE Saved(t)'
    <2>1. Saved(t) /\ row[i] = before[t] /\ row[i] # Gone
      BY <1>1, <1>2, <1>3, <1>5, <1>6, <1>8, RowFacts DEF Saving, Saved
    <2>2. ~Orphan(i, r)
      BY <1>1 DEF Orphan
    <2>3. CASE row' = row /\ pc'[t] = refused
      BY <2>3, <2>1, <1>1, <1>3, <1>6 DEF Saved, refused
    <2>4. CASE row' = [row EXCEPT ![i] = r] /\ pc'[t] = "ok"
      <3>1. row'[i] = r
        BY <2>4, <1>2 DEF CatalogueInv, DatabaseInv, CatalogueTypeOK
      <3> QED BY <2>4, <3>1, <2>1, <1>1, <1>3, <1>6 DEF Saved
    <2> QED BY <2>1, <2>2, <2>3, <2>4, <1>5
  <1> QED BY <1>5, <1>7, <1>8 DEF Keeps

\* What a channel was when the request read it still fits when nobody wrote it since.
LEMMA RollbackKeeps ==
    ASSUME CatalogueInv, NEW t \in Threads, Rollback(t)
    PROVE  Keeps(t)
  <1> DEFINE i == form[t].id  r == before[t]
  <1>1. pc[t] = "rollback" /\ Write(t, "rollback", r, "taken", "error")
        /\ UNCHANGED <<mac, form, before, remove, add>>
    BY DEF Rollback
  <1>2. form[t] \in Forms /\ i \in Ids /\ Served(t) /\ (Saving(t) => Saved(t))
    BY <1>1, Serving
  <1>3. r \in Row /\ form[t].action = "edit" /\ row[i] # None /\ i \notin Screens
    BY <1>1, <1>2, FormFacts DEF Served
  <1>4. "taken" \in CatalogueSteps /\ "error" \in CatalogueSteps
    BY DEF CatalogueSteps
  <1>5. /\ CatalogueTypeOK' /\ Constraints' /\ Spared(t) /\ RowsRemain
        /\ disturbed'[t] = disturbed[t]
        /\ \/ row[i] = Gone /\ row' = row /\ pc'[t] = "taken"
           \/ row' = row /\ Taken(i, r) /\ pc'[t] = "error"
           \/ row' = row /\ Orphan(i, r) /\ pc'[t] = "error"
           \/ row' = [row EXCEPT ![i] = r] /\ pc'[t] = "taken"
    BY <1>1, <1>2, <1>3, <1>4, WriteStep
  <1>6. form'[t] = form[t] /\ before'[t] = before[t] /\ pc'[t] \in {"taken", "error"}
    BY <1>1, <1>5
  <1>7. Served(t)'
    BY <1>1, <1>2, <1>3, <1>5, <1>6, FormFacts DEF Served, RowsRemain
  <1>8. ASSUME Saving(t)' PROVE Saved(t)'
    <2>1. Saved(t) /\ row[i] = r /\ row[i] # Gone /\ Live(i)
      BY <1>1, <1>2, <1>3, <1>5, <1>6, <1>8, RowFacts DEF Saving, Saved, Live
    <2>2. ~Orphan(i, r)
      BY <1>3 DEF Orphan
    <2>3. ~Taken(i, r)
      BY <2>1, <1>2 DEF Taken, CatalogueInv, DatabaseInv, Constraints
    <2>4. row'[i] = r /\ pc'[t] = "taken"
      BY <2>1, <2>2, <2>3, <1>2, <1>5 DEF CatalogueInv, DatabaseInv, CatalogueTypeOK
    <2> QED BY <2>1, <2>4, <1>3, <1>6 DEF Saved
  <1> QED BY <1>5, <1>7, <1>8 DEF Keeps

LEMMA EditNameKeeps ==
    ASSUME CatalogueInv, NEW t \in Threads, EditName(t)
    PROVE  Keeps(t)
  <1> DEFINE i == form[t].id  r == [row[i] EXCEPT !.name = form[t].new.name]
  <1>1. pc[t] = "edit" /\ i \in Screens /\ Write(t, "edit", r, "building", "taken")
        /\ UNCHANGED <<mac, form, before, remove, add>>
    BY DEF EditName
  <1>2. form[t] \in Forms /\ i \in Ids /\ Served(t) /\ (Saving(t) => Saved(t))
    BY <1>1, Serving
  <1>3. form[t].new \in Row /\ form[t].action = "edit" /\ before[t] \in Row /\ row[i] # None
    BY <1>1, <1>2, FormFacts DEF Served
  <1>4. "taken" \in CatalogueSteps /\ "building" \in CatalogueSteps
    BY DEF CatalogueSteps
  <1>5. ASSUME row[i] # Gone
        PROVE  /\ row[i] \in Row /\ r \in Row
               /\ row[i].in \in Buildings /\ Live(row[i].in) /\ r.in = row[i].in
    <2>1. row[i] \in Row /\ Live(i)
      BY <1>2, <1>3, <1>5 DEF CatalogueInv, DatabaseInv, CatalogueTypeOK, Live
    <2>2. row[i].in \in Buildings /\ Live(row[i].in)
      BY <2>1, <1>1 DEF CatalogueInv, DatabaseInv, Constraints
    <2> QED BY <2>1, <2>2, <1>3 DEF Row
  <1>5b. row[i] # Gone => r \in Row /\ (i \in Screens => r.in \in Buildings)
    BY <1>3, <1>5
  <1> HIDE DEF r
  <1>6. /\ CatalogueTypeOK' /\ Constraints' /\ Spared(t) /\ RowsRemain
        /\ disturbed'[t] = disturbed[t]
        /\ \/ row[i] = Gone /\ row' = row /\ pc'[t] = "building"
           \/ row' = row /\ Taken(i, r) /\ pc'[t] = "taken"
           \/ row' = row /\ Orphan(i, r) /\ pc'[t] = "error"
           \/ row' = [row EXCEPT ![i] = r] /\ pc'[t] = "building"
    <2>1. PICK q : q = r
      OBVIOUS
    <2>2. row[i] # Gone => q \in Row /\ (i \in Screens => q.in \in Buildings)
      BY <2>1, <1>5b
    <2>3. Write(t, "edit", q, "building", "taken") /\ UNCHANGED <<mac, form, before, remove, add>>
      BY <2>1, <1>1
    <2> HIDE <2>1
    <2>4. /\ CatalogueTypeOK' /\ Constraints' /\ Spared(t) /\ RowsRemain
          /\ disturbed'[t] = disturbed[t]
          /\ \/ row[i] = Gone /\ row' = row /\ pc'[t] = "building"
             \/ row' = row /\ Taken(i, q) /\ pc'[t] = "taken"
             \/ row' = row /\ Orphan(i, q) /\ pc'[t] = "error"
             \/ row' = [row EXCEPT ![i] = q] /\ pc'[t] = "building"
      BY <2>2, <2>3, <1>2, <1>4, WriteStep
    <2> QED BY <2>1, <2>4
  <1>7. form'[t] = form[t] /\ before'[t] = before[t] /\ pc'[t] \in {"building", "taken", "error"}
    BY <1>1, <1>6
  <1>8. Served(t)'
    BY <1>1, <1>2, <1>3, <1>6, <1>7, FormFacts DEF Served, RowsRemain
  <1>9. ASSUME Saving(t)' PROVE Saved(t)'
    <2>1. Saved(t) /\ row[i] = before[t] /\ row[i] # Gone
      BY <1>1, <1>2, <1>3, <1>6, <1>7, <1>9, RowFacts DEF Saving, Saved
    <2>2. ~Orphan(i, r)
      BY <2>1, <1>5 DEF Orphan
    <2>3. CatalogueTypeOK /\ (row' = row \/ row' = [row EXCEPT ![i] = r])
      BY <1>6 DEF CatalogueInv, DatabaseInv
    <2>4. i \in Screens => row'[form[t].new.in] \notin {None, Gone}
      BY <2>1, <2>3, <1>2, BuildingStays DEF Saved
    <2>5. CASE row' = row /\ pc'[t] = "taken"
      BY <2>5, <2>1, <2>4, <1>3, <1>7 DEF Saved, Live
    <2>6. CASE row' = [row EXCEPT ![i] = r] /\ pc'[t] = "building"
      <3>1. row'[i] = [before[t] EXCEPT !.name = form[t].new.name]
        BY <2>6, <2>1, <2>3, <1>2 DEF CatalogueTypeOK, r
      <3> QED BY <2>6, <3>1, <2>1, <2>4, <1>3, <1>7 DEF Saved, Live
    <2> QED BY <2>1, <2>2, <2>5, <2>6, <1>6
  <1> QED BY <1>6, <1>8, <1>9 DEF Keeps

\* The new name alone was not refused: if the building is, it is another one than before.
LEMMA EditBuildingKeeps ==
    ASSUME CatalogueInv, NEW t \in Threads, EditBuilding(t)
    PROVE  Keeps(t)
  <1> DEFINE i == form[t].id  new == form[t].new  old == before[t]
             r == [row[i] EXCEPT !.in = new.in]
  <1>1. pc[t] = "building" /\ Write(t, "building", r, "macs", "taken")
        /\ UNCHANGED <<mac, form, before, remove, add>>
    BY DEF EditBuilding
  <1>2. form[t] \in Forms /\ i \in Ids /\ Served(t) /\ (Saving(t) => Saved(t))
    BY <1>1, Serving
  <1>3. /\ new \in Row /\ form[t].action = "edit" /\ old \in Row /\ row[i] # None
        /\ i \in Screens /\ new.in \in Buildings
    BY <1>1, <1>2, FormFacts DEF Served
  <1>4. "taken" \in CatalogueSteps /\ "macs" \in CatalogueSteps
    BY DEF CatalogueSteps
  <1>5. ASSUME row[i] # Gone
        PROVE  row[i] \in Row /\ Live(i) /\ r \in Row /\ r.in = new.in
    <2>1. row[i] \in Row /\ Live(i)
      BY <1>2, <1>3, <1>5 DEF CatalogueInv, DatabaseInv, CatalogueTypeOK, Live
    <2> QED BY <2>1, <1>3 DEF Row
  <1>5a. ASSUME row[i] = [old EXCEPT !.name = new.name]
         PROVE  /\ r = new /\ row[i] \in Row
                /\ new.in = old.in => r = row[i]
                /\ new.name = old.name => row[i] = old
    <2>1. /\ new = [name |-> new.name, in |-> new.in] /\ old = [name |-> old.name, in |-> old.in]
          /\ new.name \in Names /\ old.in \in Buildings \cup Rights \cup {None}
      BY <1>3 DEF Row
    <2>2. row[i] = [name |-> new.name, in |-> old.in]
      BY <2>1, <1>5a
    <2>3. r = [name |-> new.name, in |-> new.in]
      BY <2>2
    <2> QED BY <2>1, <2>2, <2>3 DEF Row
  <1>5b. row[i] # Gone => r \in Row /\ (i \in Screens => r.in \in Buildings)
    BY <1>3, <1>5
  <1> HIDE DEF r
  <1>6. /\ CatalogueTypeOK' /\ Constraints' /\ Spared(t) /\ RowsRemain
        /\ disturbed'[t] = disturbed[t]
        /\ \/ row[i] = Gone /\ row' = row /\ pc'[t] = "macs"
           \/ row' = row /\ Taken(i, r) /\ pc'[t] = "taken"
           \/ row' = row /\ Orphan(i, r) /\ pc'[t] = "error"
           \/ row' = [row EXCEPT ![i] = r] /\ pc'[t] = "macs"
    <2>1. PICK q : q = r
      OBVIOUS
    <2>2. row[i] # Gone => q \in Row /\ (i \in Screens => q.in \in Buildings)
      BY <2>1, <1>5b
    <2>3. Write(t, "building", q, "macs", "taken")
      BY <2>1, <1>1
    <2> HIDE <2>1
    <2>4. /\ CatalogueTypeOK' /\ Constraints' /\ Spared(t) /\ RowsRemain
          /\ disturbed'[t] = disturbed[t]
          /\ \/ row[i] = Gone /\ row' = row /\ pc'[t] = "macs"
             \/ row' = row /\ Taken(i, q) /\ pc'[t] = "taken"
             \/ row' = row /\ Orphan(i, q) /\ pc'[t] = "error"
             \/ row' = [row EXCEPT ![i] = q] /\ pc'[t] = "macs"
      BY <2>2, <2>3, <1>1, <1>2, <1>4, WriteStep
    <2> QED BY <2>1, <2>4
  <1>7. form'[t] = form[t] /\ before'[t] = old /\ pc'[t] \in {"macs", "taken", "error"}
    BY <1>1, <1>6
  <1>8. Served(t)'
    BY <1>1, <1>2, <1>3, <1>6, <1>7, FormFacts DEF Served, RowsRemain
  <1>9. ASSUME Saving(t)' PROVE Saved(t)'
    <2>1. Saved(t) /\ row[i] = [old EXCEPT !.name = new.name] /\ Live(new.in)
      BY <1>1, <1>2, <1>3, <1>6, <1>7, <1>9 DEF Saving, Saved
    <2>2. r = new /\ row[i] # Gone /\ Live(i)
      BY <2>1, <1>5a, <1>5, RowFacts
    <2>3. ~Orphan(i, r)
      BY <2>1, <2>2 DEF Orphan
    <2>4. CatalogueTypeOK /\ (row' = row \/ row' = [row EXCEPT ![i] = r])
      BY <1>6 DEF CatalogueInv, DatabaseInv
    <2>5. row'[new.in] \notin {None, Gone}
      BY <2>1, <2>4, <1>2, <1>3, BuildingStays
    <2>6. CASE row' = row /\ Taken(i, r) /\ pc'[t] = "taken"
      <3>1. r # row[i]
        BY <2>6, <2>2, <1>2 DEF Taken, CatalogueInv, DatabaseInv, Constraints
      <3>2. row[i] = old \/ (new.name # old.name /\ new.in # old.in)
        BY <3>1, <2>1, <1>5a
      <3> QED BY <2>6, <3>2, <2>1, <2>5, <1>3, <1>7 DEF Saved, Live
    <2>7. CASE row' = [row EXCEPT ![i] = r] /\ pc'[t] = "macs"
      <3>1. row'[i] = new
        BY <2>7, <2>2, <2>4, <1>2 DEF CatalogueTypeOK
      <3> QED BY <2>7, <3>1, <2>1, <2>5, <1>3, <1>7 DEF Saved, Live
    <2> QED BY <2>2, <2>3, <2>6, <2>7, <1>6
  <1> QED BY <1>6, <1>8, <1>9 DEF Keeps

LEMMA SameRows ==
    ASSUME CatalogueInv, row' = row
    PROVE  Constraints' /\ RowsRemain /\ (\A i : Live(i)' <=> Live(i))
  <1>1. Constraints
    BY DEF CatalogueInv, DatabaseInv
  <1>2. \A i : Live(i)' <=> Live(i)
    BY DEF Live
  <1> QED BY <1>1, <1>2 DEF Constraints, RowsRemain

LEMMA OpenKeeps ==
    ASSUME CatalogueInv, NEW t \in Threads, NEW f \in Forms, Open(t, f)
    PROVE  Keeps(t)
  <1>1. CatalogueTypeOK /\ Served(t)
    BY DEF CatalogueInv, DatabaseInv
  <1>2. /\ pc[t] = "idle" /\ pc' = [pc EXCEPT ![t] = f.action]
        /\ form' = [form EXCEPT ![t] = f] /\ before' = [before EXCEPT ![t] = row[f.id]]
        /\ UNCHANGED <<row, mac, remove, add, disturbed>>
    BY DEF Open, Moves
  <1>3. f.action \in {"create", "edit", "delete"} /\ f.id \in Ids /\ f # None
    BY FormFacts
  <1>4. CatalogueTypeOK'
    BY <1>1, <1>2, <1>3 DEF CatalogueTypeOK, CatalogueSteps
  <1>5. pc'[t] = f.action /\ form'[t] = f /\ before'[t] = row[f.id]
    BY <1>1, <1>2 DEF CatalogueTypeOK
  <1>6. Constraints' /\ RowsRemain /\ (\A i : Live(i)' <=> Live(i))
    BY <1>2, SameRows
  <1>7. Spared(t)
    BY <1>1, <1>2, <1>6 DEF Spared, CatalogueTypeOK, Saving
  <1>8. f.action # "create" => row[f.id] \in Row
    BY <1>1, <1>3 DEF Open, Live, CatalogueTypeOK
  <1>9. Served(t)'
    BY <1>2, <1>3, <1>5, <1>8, RowFacts DEF Served
  <1>10. ASSUME Saving(t)' PROVE Saved(t)'
    <2>1. f.action \in {"create", "edit"}
      BY <1>3, <1>5, <1>10 DEF Saving
    <2>2. f.id \in Screens => row'[f.new.in] \notin {None, Gone}
      BY <2>1, <1>2 DEF Open, Live
    <2>3. f.action = "create" => row[f.id] = None
      BY DEF Open
    <2> QED BY <2>1, <2>2, <2>3, <1>2, <1>5 DEF Saved, Live
  <1> QED BY <1>4, <1>6, <1>7, <1>9, <1>10 DEF Keeps

LEMMA CloseKeeps ==
    ASSUME CatalogueInv, NEW t \in Threads, Close(t)
    PROVE  Keeps(t)
  <1>1. CatalogueTypeOK
    BY DEF CatalogueInv, DatabaseInv
  <1>2. CatalogueTypeOK'
    BY <1>1 DEF CatalogueTypeOK, CatalogueSteps, Close
  <1>3. pc'[t] = "idle" /\ form'[t] = None /\ row' = row
    BY <1>1 DEF CatalogueTypeOK, Close
  <1>4. Constraints' /\ RowsRemain /\ (\A i : Live(i)' <=> Live(i))
    BY <1>3, SameRows
  <1>5. Spared(t)
    BY <1>1, <1>4 DEF Spared, CatalogueTypeOK, Saving, Close
  <1> QED BY <1>2, <1>3, <1>4, <1>5 DEF Keeps, Served, Saving

LEMMA ReadMacsKeeps ==
    ASSUME CatalogueInv, NEW t \in Threads, ReadMacs(t)
    PROVE  Keeps(t)
  <1> DEFINE i == form[t].id  M == MacsOf(i)
  <1>1. /\ pc[t] = "macs" /\ pc' = [pc EXCEPT ![t] = "remove"]
        /\ remove' = [remove EXCEPT ![t] = M \ form[t].macs]
        /\ add' = [add EXCEPT ![t] = form[t].macs \ M]
        /\ UNCHANGED <<row, mac, form, before, disturbed>>
    BY DEF ReadMacs, Moves
  <1>2. form[t] \in Forms /\ i \in Ids /\ Served(t) /\ (Saving(t) => Saved(t))
    BY <1>1, Serving
  <1>3. CatalogueTypeOK /\ M \subseteq Macs /\ form[t].macs \subseteq Macs
    BY <1>2, FormFacts DEF CatalogueInv, DatabaseInv, MacsOf
  <1>4. M' = M
    BY <1>1 DEF MacsOf
  <1> HIDE DEF M
  <1>5. CatalogueTypeOK'
    BY <1>1, <1>3 DEF CatalogueTypeOK, CatalogueSteps
  <1>6. /\ pc'[t] = "remove" /\ form'[t] = form[t] /\ before'[t] = before[t]
        /\ remove'[t] = M \ form[t].macs /\ add'[t] = form[t].macs \ M
    BY <1>1, <1>3 DEF CatalogueTypeOK
  <1>7. Constraints' /\ RowsRemain /\ (\A j : Live(j)' <=> Live(j))
    BY <1>1, SameRows
  <1>8. Spared(t)
    BY <1>1, <1>3, <1>7 DEF Spared, CatalogueTypeOK, Saving
  <1>9. Served(t)'
    BY <1>1, <1>2, <1>6 DEF Served
  <1>10. MacsLeft(t)'
    <2>1. MacsOf(form[t].id)' = M
      BY <1>4 DEF M
    <2> QED BY <2>1, <1>6 DEF MacsLeft
  <1>11. ASSUME Saving(t)' PROVE Saved(t)'
    <2>1. Saved(t)
      BY <1>1, <1>2, <1>11 DEF Saving
    <2> QED BY <2>1, <1>1, <1>6, <1>7, <1>10 DEF Saved, Live
  <1> QED BY <1>5, <1>7, <1>8, <1>9, <1>11 DEF Keeps

\* A change of an address, by a request that is about a screen.
MacWritten(t, m, s, to, S, A) ==
    /\ pc[t] = "remove" /\ pc' = [pc EXCEPT ![t] = to] /\ to \in CatalogueSteps
    /\ mac' = [mac EXCEPT ![m] = s] /\ s \in {None, form[t].id}
    /\ remove' = [remove EXCEPT ![t] = S] /\ S \subseteq Macs
    /\ add' = [add EXCEPT ![t] = A] /\ A \subseteq Macs
    /\ Disturb(t, {m, mac[m], form[t].id}, None)
    /\ UNCHANGED <<row, form, before>>

LEMMA MacStep ==
    ASSUME CatalogueInv, NEW t \in Threads, NEW m \in Macs, NEW s, NEW to, NEW S, NEW A,
           MacWritten(t, m, s, to, S, A)
    PROVE  /\ CatalogueTypeOK' /\ Spared(t)
           /\ disturbed'[t] = disturbed[t]
           /\ pc'[t] = to /\ remove'[t] = S /\ add'[t] = A
           /\ MacsOf(form[t].id)' = IF s = None THEN MacsOf(form[t].id) \ {m}
                                                ELSE MacsOf(form[t].id) \cup {m}
  <1> USE DEF MacWritten
  <1> DEFINE i == form[t].id
  <1>1. form[t] \in Forms /\ i \in Ids /\ Served(t)
    BY Serving
  <1>2. CatalogueTypeOK /\ i \in Screens /\ i # None
    BY <1>1, RowFacts DEF CatalogueInv, DatabaseInv, Served
  <1>3. /\ disturbed'[t] = disturbed[t] /\ disturbed' \in [Threads -> BOOLEAN]
        /\ \A u \in Threads \ {t} : Saving(u)' =>
               /\ Saving(u) /\ form[u] \in Forms
               /\ {m, mac[m], i} \cap ({form[u].id, form[u].new.in} \cup form[u].macs) = {}
    BY <1>2, DisturbSpares
  <1>4. s \in Screens \cup {None}
    BY <1>2
  <1>5. CatalogueTypeOK'
    BY <1>2, <1>3, <1>4 DEF CatalogueTypeOK
  <1>6. pc'[t] = to /\ remove'[t] = S /\ add'[t] = A
    BY <1>2 DEF CatalogueTypeOK
  <1>7. mac'[m] = s /\ \A n \in Macs \ {m} : mac'[n] = mac[n]
    BY <1>2 DEF CatalogueTypeOK
  <1>8. Spared(t)
    <2>1. \A j : Live(j)' <=> Live(j)
      BY DEF Live
    <2>2. ASSUME NEW u \in Threads \ {t}
          PROVE  /\ pc'[u] = pc[u] /\ form'[u] = form[u] /\ before'[u] = before[u]
                 /\ remove'[u] = remove[u] /\ add'[u] = add[u]
      BY <1>2 DEF CatalogueTypeOK
    <2>3. ASSUME NEW u \in Threads \ {t}, Saving(u)'
          PROVE  Saving(u) /\ \A n \in Macs : mac'[n] = form[u].id <=> mac[n] = form[u].id
      <3>1. Saving(u) /\ form[u].id \in Ids /\ form[u].id # None
        BY <2>3, <1>3, FormFacts, RowFacts
      <3>2. form[u].id # mac[m] /\ form[u].id # i
        BY <2>3, <1>3
      <3> QED BY <3>1, <3>2, <1>7
    <2> QED BY <2>1, <2>2, <2>3 DEF Spared
  <1>9. MacsOf(i)' = {n \in Macs : mac'[n] = i}
    BY DEF MacsOf
  <1>10. MacsOf(i)' = IF s = None THEN MacsOf(i) \ {m} ELSE MacsOf(i) \cup {m}
    BY <1>9, <1>7, <1>2 DEF MacsOf
  <1> QED BY <1>3, <1>5, <1>6, <1>8, <1>10

LEMMA RemoveMacKeeps ==
    ASSUME CatalogueInv, NEW t \in Threads, NEW m \in Macs, RemoveMac(t, m)
    PROVE  Keeps(t)
  <1> DEFINE i == form[t].id  to == IF mac[m] = None THEN "error" ELSE "remove"
             S == remove[t] \ {m}
  <1>1. /\ m \in remove[t] /\ pc[t] = "remove" /\ pc' = [pc EXCEPT ![t] = to]
        /\ mac' = [mac EXCEPT ![m] = None] /\ Disturb(t, {m, mac[m], i}, None)
        /\ remove' = [remove EXCEPT ![t] = S]
        /\ UNCHANGED <<row, form, before, add>>
    BY DEF RemoveMac, Moves
  <1>2. form[t] \in Forms /\ i \in Ids /\ Served(t) /\ (Saving(t) => Saved(t))
    BY <1>1, Serving
  <1>3. CatalogueTypeOK /\ add[t] \subseteq Macs /\ S \subseteq Macs /\ to \in CatalogueSteps
    BY DEF CatalogueInv, DatabaseInv, CatalogueTypeOK, CatalogueSteps
  <1>4. add' = [add EXCEPT ![t] = add[t]]
    BY <1>1, <1>3 DEF CatalogueTypeOK
  <1> HIDE DEF to, S
  <1>5. /\ CatalogueTypeOK' /\ Spared(t) /\ disturbed'[t] = disturbed[t]
        /\ pc'[t] = to /\ remove'[t] = S /\ add'[t] = add[t]
        /\ MacsOf(i)' = MacsOf(i) \ {m}
    <2>1. PICK q, R, A : q = to /\ R = S /\ A = add[t]
      OBVIOUS
    <2>2. MacWritten(t, m, None, q, R, A)
      BY <2>1, <1>1, <1>3, <1>4 DEF MacWritten
    <2>3. /\ CatalogueTypeOK' /\ Spared(t) /\ disturbed'[t] = disturbed[t]
          /\ pc'[t] = q /\ remove'[t] = R /\ add'[t] = A
          /\ MacsOf(form[t].id)' = MacsOf(form[t].id) \ {m}
      BY <2>2, MacStep
    <2> QED BY <2>1, <2>3
  <1>6. form'[t] = form[t] /\ before'[t] = before[t]
    BY <1>1
  <1>7. Constraints' /\ RowsRemain /\ (\A j : Live(j)' <=> Live(j))
    BY <1>1, SameRows
  <1>8. Served(t)'
    BY <1>1, <1>2, <1>5, <1>6 DEF Served, to
  <1>9. ASSUME Saving(t)' PROVE Saved(t)'
    <2>1. Saved(t) /\ MacsLeft(t)
      BY <1>1, <1>2, <1>5, <1>6, <1>9 DEF Saving, Saved
    <2>2. m \in MacsOf(i) /\ m \notin form[t].macs
      BY <2>1, <1>1 DEF MacsLeft
    <2>3. to = "remove"
      BY <2>2, <1>2, RowFacts DEF MacsOf, to
    <2>4. /\ add'[t] \subseteq form'[t].macs /\ remove'[t] \cap form'[t].macs = {}
          /\ MacsOf(i)' = (form'[t].macs \ add'[t]) \cup remove'[t]
      BY <2>1, <2>2, <1>5, <1>6 DEF MacsLeft, S
    <2>5. MacsLeft(t)'
      BY <2>4 DEF MacsLeft
    <2> QED BY <2>1, <2>3, <2>5, <1>1, <1>5, <1>6, <1>7 DEF Saved, Live
  <1> QED BY <1>5, <1>7, <1>8, <1>9 DEF Keeps

LEMMA AddMacKeeps ==
    ASSUME CatalogueInv, NEW t \in Threads, NEW m \in Macs, AddMac(t, m)
    PROVE  Keeps(t)
  <1> DEFINE i == form[t].id  A == add[t] \ {m}
  <1>1. /\ m \in add[t] /\ remove[t] = {} /\ pc[t] = "remove"
        /\ add' = [add EXCEPT ![t] = A]
        /\ UNCHANGED <<row, form, before, remove>>
    BY DEF AddMac, Moves
  <1>2. form[t] \in Forms /\ i \in Ids /\ Served(t) /\ (Saving(t) => Saved(t))
    BY <1>1, Serving
  <1>3. CatalogueTypeOK /\ A \subseteq Macs
    BY DEF CatalogueInv, DatabaseInv, CatalogueTypeOK
  <1> HIDE DEF A
  <1>4. form'[t] = form[t] /\ before'[t] = before[t] /\ remove'[t] = {}
    BY <1>1
  <1>5. Constraints' /\ RowsRemain /\ (\A j : Live(j)' <=> Live(j))
    BY <1>1, SameRows
  <1>6. CASE mac[m] # None \/ ~Live(i)
    <2> DEFINE to == IF mac[m] # None THEN "mac" ELSE "error"
    <2>1. pc' = [pc EXCEPT ![t] = to] /\ mac' = mac /\ disturbed' = disturbed
      BY <1>6 DEF AddMac, Moves
    <2>2. to \in CatalogueSteps
      BY DEF CatalogueSteps
    <2> HIDE DEF to
    <2>3. CatalogueTypeOK'
      BY <2>1, <2>2, <1>1, <1>3 DEF CatalogueTypeOK
    <2>4. pc'[t] = to
      BY <2>1, <1>3 DEF CatalogueTypeOK
    <2>5. Spared(t)
      BY <2>1, <1>1, <1>3, <1>5 DEF Spared, CatalogueTypeOK, Saving
    <2>6. Served(t)'
      BY <1>1, <1>2, <1>4, <2>4 DEF Served, to
    <2>7. ASSUME Saving(t)' PROVE Saved(t)'
      <3>1. Saved(t) /\ row[i] = form[t].new
        BY <1>1, <1>2, <1>4, <2>1, <2>7 DEF Saving, Saved
      <3>2. Live(i)
        BY <3>1, <1>2, FormFacts, RowFacts DEF Live
      <3>3. to = "mac"
        BY <3>2, <1>6 DEF to
      <3> QED BY <3>1, <3>3, <2>4, <1>1, <1>4, <1>5 DEF Saved, Live
    <2> QED BY <2>3, <2>5, <2>6, <2>7, <1>5 DEF Keeps
  <1>7. CASE mac[m] = None /\ Live(i)
    <2>1. /\ pc' = [pc EXCEPT ![t] = "remove"] /\ mac' = [mac EXCEPT ![m] = i]
          /\ Disturb(t, {m, mac[m], i}, None)
      BY <1>7 DEF AddMac, Moves
    <2>2. remove' = [remove EXCEPT ![t] = {}] /\ "remove" \in CatalogueSteps
      BY <1>1, <1>3 DEF CatalogueTypeOK, CatalogueSteps
    <2>3. /\ CatalogueTypeOK' /\ Spared(t) /\ disturbed'[t] = disturbed[t]
          /\ pc'[t] = "remove" /\ add'[t] = A
          /\ MacsOf(i)' = MacsOf(i) \cup {m}
      <3>1. PICK q, B, R, s : q = "remove" /\ B = A /\ R = {} /\ s = form[t].id
        OBVIOUS
      <3>2. MacWritten(t, m, s, q, R, B)
        BY <3>1, <2>1, <2>2, <1>1, <1>3 DEF MacWritten
      <3>3. s # None
        BY <3>1, <1>2, RowFacts
      <3>4. /\ CatalogueTypeOK' /\ Spared(t) /\ disturbed'[t] = disturbed[t]
            /\ pc'[t] = q /\ remove'[t] = R /\ add'[t] = B
            /\ MacsOf(form[t].id)' = IF s = None THEN MacsOf(form[t].id) \ {m}
                                                 ELSE MacsOf(form[t].id) \cup {m}
        BY <3>2, MacStep
      <3> QED BY <3>1, <3>3, <3>4
    <2>4. Served(t)'
      BY <1>1, <1>2, <1>4, <2>3 DEF Served
    <2>5. ASSUME Saving(t)' PROVE Saved(t)'
      <3>1. Saved(t) /\ MacsLeft(t)
        BY <1>1, <1>2, <1>4, <2>3, <2>5 DEF Saving, Saved
      <3>2. /\ add'[t] \subseteq form'[t].macs /\ remove'[t] \cap form'[t].macs = {}
            /\ MacsOf(i)' = (form'[t].macs \ add'[t]) \cup remove'[t]
        BY <3>1, <2>3, <1>1, <1>4 DEF MacsLeft, A
      <3>3. MacsLeft(t)'
        BY <3>2 DEF MacsLeft
      <3> QED BY <3>1, <3>3, <2>3, <1>1, <1>4, <1>5 DEF Saved, Live
    <2> QED BY <2>3, <2>4, <2>5, <1>5 DEF Keeps
  <1> QED BY <1>6, <1>7

LEMMA MacsDoneKeeps ==
    ASSUME CatalogueInv, NEW t \in Threads, MacsDone(t)
    PROVE  Keeps(t)
  <1>1. /\ remove[t] = {} /\ add[t] = {} /\ pc[t] = "remove" /\ pc' = [pc EXCEPT ![t] = "ok"]
        /\ UNCHANGED <<row, mac, form, before, remove, add, disturbed>>
    BY DEF MacsDone, Moves
  <1>2. Served(t) /\ (Saving(t) => Saved(t)) /\ CatalogueTypeOK
    BY <1>1, Serving DEF CatalogueInv, DatabaseInv
  <1>3. CatalogueTypeOK' /\ pc'[t] = "ok"
    BY <1>1, <1>2 DEF CatalogueTypeOK, CatalogueSteps
  <1>4. Constraints' /\ RowsRemain /\ (\A j : Live(j)' <=> Live(j))
    BY <1>1, SameRows
  <1>5. Spared(t)
    BY <1>1, <1>2, <1>4 DEF Spared, CatalogueTypeOK, Saving
  <1>6. Served(t)'
    BY <1>1, <1>2, <1>3 DEF Served
  <1>7. ASSUME Saving(t)' PROVE Saved(t)'
    <2>1. Saved(t) /\ MacsLeft(t)
      BY <1>1, <1>2, <1>7 DEF Saving, Saved
    <2>2. MacsOf(form[t].id)' = MacsOf(form[t].id)
      BY <1>1 DEF MacsOf
    <2>3. MacsOf(form[t].id) = form[t].macs
      BY <2>1, <1>1 DEF MacsLeft
    <2> QED BY <2>1, <2>2, <2>3, <1>1, <1>3, <1>4 DEF Saved, Live
  <1> QED BY <1>3, <1>4, <1>5, <1>6, <1>7 DEF Keeps

LEMMA CountScreensKeeps ==
    ASSUME CatalogueInv, NEW t \in Threads, CountScreens(t)
    PROVE  Keeps(t)
  <1> DEFINE to == IF ScreensIn(form[t].id) # {} THEN "refused" ELSE "destroy"
  <1>1. /\ pc[t] = "delete" /\ pc' = [pc EXCEPT ![t] = to] /\ form[t].id \in Buildings
        /\ UNCHANGED <<row, mac, form, before, remove, add, disturbed>>
    BY DEF CountScreens, Moves
  <1>2. Served(t) /\ CatalogueTypeOK /\ to \in {"refused", "destroy"}
    BY <1>1, Serving DEF CatalogueInv, DatabaseInv
  <1> HIDE DEF to
  <1>3. CatalogueTypeOK' /\ pc'[t] = to
    BY <1>1, <1>2 DEF CatalogueTypeOK, CatalogueSteps
  <1>4. Constraints' /\ RowsRemain /\ (\A j : Live(j)' <=> Live(j))
    BY <1>1, SameRows
  <1>5. Spared(t)
    BY <1>1, <1>2, <1>4 DEF Spared, CatalogueTypeOK, Saving
  <1>6. Served(t)' /\ form'[t].action = "delete"
    BY <1>1, <1>2, <1>3 DEF Served
  <1> QED BY <1>3, <1>4, <1>5, <1>6 DEF Keeps, Saving

\* A row is deleted: a building without screens, or a screen with its addresses.
LEMMA DeletedKeeps ==
    ASSUME CatalogueInv, NEW t \in Threads, pc[t] \in {"delete", "destroy"},
           ScreensIn(form[t].id) = {} \/ form[t].id \in Screens,
           pc' = [pc EXCEPT ![t] = "ok"], row' = [row EXCEPT ![form[t].id] = Gone],
           \/ mac' = mac
           \/ mac' = [m \in Macs |-> IF mac[m] = form[t].id THEN None ELSE mac[m]],
           Disturb(t, {form[t].id}, None), UNCHANGED <<form, before, remove, add>>
    PROVE  Keeps(t)
  <1> DEFINE i == form[t].id
  <1>1. form[t] \in Forms /\ i \in Ids /\ Served(t) /\ form[t].action = "delete"
    BY Serving DEF Served
  <1>2. CatalogueTypeOK /\ Constraints
    BY DEF CatalogueInv, DatabaseInv
  <1>3. /\ disturbed' \in [Threads -> BOOLEAN]
        /\ \A u \in Threads \ {t} : Saving(u)' =>
               /\ Saving(u) /\ form[u] \in Forms
               /\ {i} \cap ({form[u].id, form[u].new.in} \cup form[u].macs) = {}
    BY <1>2, DisturbSpares
  <1>4. mac' \in [Macs -> Screens \cup {None}]
    BY <1>2 DEF CatalogueTypeOK
  <1>5. CatalogueTypeOK' /\ pc'[t] = "ok"
    BY <1>1, <1>2, <1>3, <1>4 DEF CatalogueTypeOK, CatalogueSteps
  <1>6. Constraints'
    BY <1>1, <1>2, RowFacts, GoneConstraints
  <1>7. row'[i] = Gone /\ \A j : j # i => row'[j] = row[j]
    BY <1>1, <1>2 DEF CatalogueTypeOK
  <1>8. RowsRemain
    BY <1>7, RowFacts DEF RowsRemain
  <1>9. Spared(t)
    <2>1. ASSUME NEW u \in Threads \ {t}
          PROVE  /\ pc'[u] = pc[u] /\ form'[u] = form[u] /\ before'[u] = before[u]
                 /\ remove'[u] = remove[u] /\ add'[u] = add[u]
      BY <1>2 DEF CatalogueTypeOK
    <2>2. ASSUME NEW u \in Threads \ {t}, Saving(u)'
          PROVE  /\ Saving(u) /\ row'[form[u].id] = row[form[u].id]
                 /\ row'[form[u].new.in] = row[form[u].new.in]
                 /\ \A m \in Macs : mac'[m] = form[u].id <=> mac[m] = form[u].id
      <3>1. /\ Saving(u) /\ form[u].id \in Ids /\ form[u].id # None
            /\ form[u].id # i /\ form[u].new.in # i
        BY <2>2, <1>3, FormFacts, RowFacts
      <3>2. ASSUME NEW m \in Macs PROVE mac'[m] = mac[m] \/ (mac[m] = i /\ mac'[m] = None)
        <4>1. CASE mac' = mac
          BY <4>1
        <4>2. CASE mac' = [n \in Macs |-> IF mac[n] = i THEN None ELSE mac[n]]
          <5>1. mac'[m] = IF mac[m] = i THEN None ELSE mac[m]
            BY <4>2
          <5> QED BY <5>1
        <4> QED BY <4>1, <4>2
      <3> QED BY <3>1, <3>2, <1>7
    <2> QED BY <2>1, <2>2 DEF Spared, Live
  <1>10. Served(t)' /\ form'[t].action = "delete"
    BY <1>1, <1>5 DEF Served
  <1> QED BY <1>5, <1>6, <1>8, <1>9, <1>10 DEF Keeps, Saving

LEMMA DeleteBuildingKeeps ==
    ASSUME CatalogueInv, NEW t \in Threads, DeleteBuilding(t)
    PROVE  Keeps(t)
  <1>1. pc[t] = "destroy" /\ UNCHANGED <<mac, form, before, remove, add>>
    BY DEF DeleteBuilding
  <1>2. CASE ScreensIn(form[t].id) # {}
    <2>1. pc' = [pc EXCEPT ![t] = "error"] /\ row' = row /\ disturbed' = disturbed
      BY <1>2 DEF DeleteBuilding, Moves
    <2>2. Served(t) /\ CatalogueTypeOK
      BY <1>1, Serving DEF CatalogueInv, DatabaseInv
    <2>3. CatalogueTypeOK' /\ pc'[t] = "error"
      BY <1>1, <2>1, <2>2 DEF CatalogueTypeOK, CatalogueSteps
    <2>4. Constraints' /\ RowsRemain /\ (\A j : Live(j)' <=> Live(j))
      BY <2>1, SameRows
    <2>5. Spared(t)
      BY <1>1, <2>1, <2>2, <2>4 DEF Spared, CatalogueTypeOK, Saving
    <2>6. Served(t)' /\ form'[t].action = "delete"
      BY <1>1, <2>2, <2>3 DEF Served
    <2> QED BY <2>3, <2>4, <2>5, <2>6 DEF Keeps, Saving
  <1>3. CASE ScreensIn(form[t].id) = {}
    <2>1. /\ pc' = [pc EXCEPT ![t] = "ok"] /\ row' = [row EXCEPT ![form[t].id] = Gone]
          /\ Disturb(t, {form[t].id}, None)
      BY <1>3 DEF DeleteBuilding, Moves
    <2> QED BY <2>1, <1>1, <1>3, DeletedKeeps
  <1> QED BY <1>2, <1>3

LEMMA DeleteScreenKeeps ==
    ASSUME CatalogueInv, NEW t \in Threads, DeleteScreen(t)
    PROVE  Keeps(t)
  <1>1. /\ pc[t] = "delete" /\ form[t].id \in Screens
        /\ pc' = [pc EXCEPT ![t] = "ok"] /\ row' = [row EXCEPT ![form[t].id] = Gone]
        /\ mac' = [m \in Macs |-> IF mac[m] = form[t].id THEN None ELSE mac[m]]
        /\ Disturb(t, {form[t].id}, None) /\ UNCHANGED <<form, before, remove, add>>
    BY DEF DeleteScreen, Moves
  <1> QED BY <1>1, DeletedKeeps

-----------------------------------------------------------------------------

LEMMA CatalogueNextInv == CatalogueInv /\ [CatalogueNext]_catalogueVars => CatalogueInv'
  <1> SUFFICES ASSUME CatalogueInv, [CatalogueNext]_catalogueVars PROVE CatalogueInv'
    OBVIOUS
  <1>1. ASSUME NEW t \in Threads, Keeps(t) PROVE CatalogueInv'
    <2>1. \A u \in Threads : Served(u)' /\ (Saving(u)' => Saved(u)')
      BY <1>1, SparedKeep DEF Keeps
    <2> QED BY <2>1, <1>1 DEF CatalogueInv, DatabaseInv, SavedInv, Keeps
  <1>2. ASSUME NEW t \in Threads,
               \/ \E f \in Forms : Open(t, f)
               \/ Create(t) \/ Edit(t) \/ Rollback(t) \/ EditName(t) \/ EditBuilding(t)
               \/ ReadMacs(t) \/ MacsDone(t)
               \/ \E m \in Macs : RemoveMac(t, m) \/ AddMac(t, m)
               \/ CountScreens(t) \/ DeleteBuilding(t) \/ DeleteScreen(t) \/ Close(t)
        PROVE  Keeps(t)
    BY <1>2, OpenKeeps, CreateKeeps, EditKeeps, RollbackKeeps, EditNameKeeps, EditBuildingKeeps,
       ReadMacsKeeps, MacsDoneKeeps, RemoveMacKeeps, AddMacKeeps, CountScreensKeeps,
       DeleteBuildingKeeps, DeleteScreenKeeps, CloseKeeps
  <1>3. CASE UNCHANGED catalogueVars
    BY <1>3 DEF catalogueVars, CatalogueInv, DatabaseInv, CatalogueTypeOK, Constraints, Live, Clash,
       Served, SavedInv, Saving, Saved, MacsLeft, MacsOf
  <1> QED BY <1>1, <1>2, <1>3 DEF CatalogueNext

LEMMA CatalogueAlways == CatalogueSpec => []CatalogueInv
  BY CatalogueInitInv, CatalogueNextInv, PTL DEF CatalogueSpec

\* Whatever other requests do in between, a form that none of them disturbed is answered with
\* what the database holds: "ok" when all that it says is written, a refusal when what was
\* there is there still, but for the two of a screen's name and building.
THEOREM FormsAreAnsweredTruly == CatalogueSpec => []SavedAsAnswered
  <1>1. CatalogueInv => SavedAsAnswered
    <2> SUFFICES ASSUME CatalogueInv, NEW t \in Threads,
                        Answered(t), form[t].action # "delete", ~disturbed[t]
                 PROVE  LET now == row[form[t].id]  new == form[t].new  old == before[t] IN
                        /\ pc[t] # "error"
                        /\ pc[t] \in {"ok", "mac"} => now = new
                        /\ pc[t] = "ok" /\ form[t].id \in Screens =>
                               MacsOf(form[t].id) = form[t].macs
                        /\ pc[t] = "taken" =>
                               \/ now = old
                               \/ /\ form[t].id \in Screens /\ form[t].action = "edit"
                                  /\ new.name # old.name /\ new.in # old.in
                                  /\ now = [old EXCEPT !.name = new.name]
      BY DEF SavedAsAnswered
    <2>1. pc[t] # "idle"
      BY DEF Answered
    <2>2. form[t] \in Forms /\ form[t] # None /\ (Saving(t) => Saved(t))
      BY <2>1, Serving, FormFacts
    <2> QED BY <2>2 DEF Saving, Saved
  <1> QED BY <1>1, CatalogueAlways, PTL

\* An address is taken from a screen by a form about that screen, or by one whose screen
\* was given other addresses since the form read them.
THEOREM AddressesAreKept == CatalogueSpec => OthersKeepTheirMacs
  <1>1. ASSUME CatalogueInv, CatalogueNext, NEW m \in Macs, mac[m] # None, mac'[m] # mac[m]
        PROVE  \E t \in Threads : /\ pc[t] # "idle"
                                  /\ form[t].id = mac[m] \/ disturbed[t]
                                  /\ form[t].id \in Screens
    <2>1. CatalogueTypeOK
      BY <1>1 DEF CatalogueInv, DatabaseInv
    <2>2. PICK t \in Threads : (\E n \in Macs : RemoveMac(t, n) \/ AddMac(t, n)) \/ DeleteScreen(t)
      BY <1>1 DEF CatalogueNext, Open, Create, Edit, Rollback, EditName, EditBuilding, ReadMacs,
         MacsDone, CountScreens, DeleteBuilding, Close
    <2>3. CASE DeleteScreen(t)
      <3>1. pc[t] = "delete" /\ form[t].id \in Screens /\ mac[m] = form[t].id
        BY <2>3, <1>1 DEF DeleteScreen
      <3> QED BY <3>1
    <2>4. ASSUME NEW n \in Macs, RemoveMac(t, n) \/ AddMac(t, n)
          PROVE  pc[t] # "idle" /\ (form[t].id = mac[m] \/ disturbed[t]) /\ form[t].id \in Screens
      <3>1. pc[t] = "remove" /\ mac'[m] # mac[m]
        BY <2>4, <1>1 DEF RemoveMac, AddMac, Moves
      <3>2. n = m
        BY <2>4, <2>1, <3>1 DEF RemoveMac, AddMac, CatalogueTypeOK
      <3>3. ~AddMac(t, n)
        BY <3>1, <3>2, <1>1 DEF AddMac
      <3>4. m \in remove[t]
        BY <2>4, <3>2, <3>3 DEF RemoveMac
      <3>5. form[t] \in Forms /\ Served(t) /\ (Saving(t) => Saved(t))
        BY <3>1, <1>1, Serving
      <3>6. form[t].id \in Screens /\ form[t].action # "delete" /\ form[t] # None
        BY <3>5, <3>1, FormFacts DEF Served
      <3>7. disturbed[t] \/ m \in MacsOf(form[t].id)
        BY <3>1, <3>4, <3>5, <3>6 DEF Saving, Saved, MacsLeft
      <3> QED BY <3>1, <3>6, <3>7 DEF MacsOf
    <2> QED BY <2>2, <2>3, <2>4, <2>1
  <1>2. CatalogueInv /\ [CatalogueNext]_catalogueVars =>
            [\A m \in Macs : mac[m] # None /\ mac'[m] # mac[m] =>
                \E t \in Threads : /\ pc[t] # "idle"
                                   /\ form[t].id = mac[m] \/ disturbed[t]
                                   /\ form[t].id \in Screens]_catalogueVars
    BY <1>1
  <1> QED BY <1>2, CatalogueAlways, PTL DEF CatalogueSpec, OthersKeepTheirMacs
=============================================================================

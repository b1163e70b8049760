# A TLA+ verification of ICTV

ICTV broadcasts content to screens: plugins produce *capsules* of *slides* for
*channels*; channels are grouped in *bundles*; a *screen* subscribes to channels and
bundles, and shows their slides, either in a browser or on a dedicated client that
caches them. This directory has TLA+ modules that follow the Python (and JavaScript) code, TLC
configurations that check them on small instances, and proofs, checked by TLAPS, of the
theorems that hold for instances of every size.

Line numbers below and in `PROJECT.json` are those of the files under `ictv/`.

## 1. Inventory of the system

Processes and threads: the server is one process with several request threads (15 under
the mod_wsgi configuration in `wsgi_server/`, one under `run_simple`), an asyncio
thread that downloads, a post-processing thread, a transcoding thread, a cleanup thread,
a thread per e-mail digester. The SQL database is in autocommit mode with a connection per
thread, so a request is *not* a transaction. A dedicated client has a cache daemon
(XML-RPC server and a caching thread) and a browser that polls it.

| Component | State | Operations | Hard behaviour | What makes it correct |
|---|---|---|---|---|
| E-mail digester | pending digests, their hashes, users mailed, timers, lock | `add_email`, `_send_email`, `_run_sched`, `stop` | request threads against the scheduler thread; failing SMTP; lock without `with` | one mail per user and interval; nothing lost, repeated or stranded |
| Channel bundles | membership table | `add_channel`, `remove_channel`, two pages that apply diffs | check and insertion are separate statements | the graph stays acyclic and without duplicates |
| Content of screens | subscriptions, enabled flags, plugins activated | `flatten`, `get_channels_content`, preview | recursion over a graph, disabled nodes, repeated nodes | a screen shows what is reachable, once |
| Cache manager | cached rows, table of locks, master lock | `cache_file_at_url` | locks that are created and deleted while referenced | a file is cached once; every call returns |
| Download manager, cache page | `in_flight`, files, tasks, queue | `enqueue_asset`, callback, post-processing, `CachePage`, `_get_path` | five threads on a row, failures, restarts | links lead to files; nothing stays in flight |
| Client cache daemon | files on disk, page, deletion list, link | requests, `save_at`, `cache_page`, deletions | lost connections, reboots between two steps | the last page and its assets stay on disk |
| Client browser | slideshow shown, next one, polling | `bootstrap.html` | callbacks in any order | the screen always shows a slideshow and moves on |
| Plugin manager | content cache, modules, alerts | `get_plugin_content`, filtering, instantiation | cache shared and mutated; stale references | content is fresh enough and refers to assets that exist |
| Storage manager, cleanup | asset rows and files | `store_file`, `delete_all_assets`, QR codes, daily cleanup | rows and files change apart, without a lock | a path that is linked leads to a file; the cleanup repairs what was stored twice |
| Transcoding queue | queue, progress table, ffmpeg | `enqueue_task`, worker, callbacks, `stop` | exceptions of callbacks, an ffmpeg that outlives its job | jobs are called back; a success is a whole file |
| Users, roles, permissions | permission levels, roles on channels and screens | handlers under `PermissionGate`, LogAs | rights checked in one place and used in another | no handler acts beyond the rights of its user |
| Channel and screen pages | channels with parameters and rights, screens, subscriptions, owners, addresses, buildings, plugins | `post` of each page | partial updates; rights lost between check and write; cascades of deletions | subscriptions and parameters are changed by right; an answer says what was written |
| Authentication, feedback | session cookie, reset secrets, feedback | login, logout, LogAs, reset, rotation of messages | tabs whose requests overlap; a link used twice | a session is of who signed in; messages are shown once |
| Request processors | processors of the application and of each web application | registration, application, mounting at run time | threads that mount the same application | each request goes through each processor once, in order |
| Renderer, themes | theme files, limits of templates | inheritance of themes, slides that do not comply | missing and cyclic parents | style sheets come after those they override |

What is hard to test is listed at its line in `PROJECT.json` under `hazards`.

## 2. Plan

Modules in the order in which they are written.

1. `DigestMailer` (abstract), `EmailDigester`, `EmailDigesterProofs` — *done*
2. `BundleGraph`, `BundleStore` (abstract), `ChannelBundle`, `ChannelBundleProofs` — *done*
3. `ScreenContent`, over the same graph — *done*, proved in `ChannelBundleProofs`
4. `CacheManager`, `CacheManagerProofs` — *done*
5. `DownloadManager`, `DownloadManagerProofs` — *done*
6. `CacheDaemon`, and `ClientScreen`, which composes it with the browser; `ClientScreenProofs` — *done*
7. `UserRights`: ranks, roles and the gate — *done*, proved in `AccessProofs`
8. `ContentCache`, `ContentCacheProofs`: the content of channels and its cache — *done*
9. `Subscriptions`, `SubscriptionsProofs`: who subscribes a screen to a channel — *done*
10. `ChannelConfig`: the parameters of channels and the rights on them; `WebSession`: the session of a browser;
    `AccessProofs` for both and for `UserRights` — *done*
11. `Catalogue`: buildings, screens, addresses and channels — *done*, proved in `ClientScreenProofs`;
    `Plugins`: their lifecycle and routes; `Processors` — *done*, proved in `ChannelBundleProofs`
12. `Storage` — *done*, proved in `CacheManagerProofs`; `Transcoding` — *done*, proved in `DownloadManagerProofs`;
    `SlideFilter` — *done*, proved in `ChannelBundleProofs`; `Themes` — *done* (recursive operators: TLC only)

Not started: an abstract specification of a screen that shows the latest content it could get, for `ClientScreen` to
implement (of which `NeverGoesBack` is the safety part); a transactional store of subscriptions for `Subscriptions`, as `BundleStore` is for
bundles; torn files in `CacheDaemon`. Theorems worth proving next: those refinements, and `ThemesAreInOrder` with the recursion on themes as
recursive functions of the tree.

## 3. Modules and how they correspond to the code

An action is what one thread does between two points where another may run: a statement on the database, a lock,
an access to a dictionary that threads share, a callback. `MC<module>` holds the definitions and the symmetry that TLC needs, and
`<module>Proofs` the theorems of `<module>`, and of modules that are close to it (section 5). A variable whose comment says *history* is read by properties only.

### EmailDigester (`plugin_manager/email_digester.py`)
`digest` and `digestHashes` are the two dictionaries, `lastEmail` the keys of the third (no code
reads its values), `timers` the events in the `sched` queue as the time they have left. `AddEmail`
is the whole of `add_email`, which runs under the lock. The scheduler thread is split
where it waits: `LoopTest`, `PopEvent`, then `_send_email`, which waits for the lock and then
either forgets the user (`ForgetUser`) or starts an SMTP exchange (`StartSend`) that ends in one of three
ways (`MailSent`, `MailRefused`, `MailRaises`), with the lock held meanwhile. At this commit only the last one happens, since nothing imports the `web` of line 112:
`Outcomes` says which are explored, all three (what the class does once the name is found) or the one of this commit. `DigestMailer` is what the class
docstring promises: boxes of messages, mailed as a whole, an interval apart; `ImplementsMailer` is the refinement.

### BundleGraph, ChannelBundle, BundleStore (`models/channel.py`, `pages/manage_bundle_page.py`, `pages/channel_page.py`)
`bundled[b][c]` counts the rows of the join table. A request receives a diff that passes
the checks of its page (`Receive`), takes the changes one by one, and for an addition reads (`CheckPasses`,
`CycleFound`, `AlreadyThere`) before it inserts (`Insert`). `HasNoCycles` is the recursive check: `Walk` is a recursive function of the ids marked so
far, whose value is the set of the bundles from which no call raises. `BundleStore` is what the tables promise: the check and the insertion of an addition are
one step, which adds what is not there and leaves `flatten` able to end; nothing is promised once two additions have raced (`Broken`). `StoreIsAtomic` is the refinement, with
`contents <- bundled` and `raced <- overlapped`.

### ScreenContent (`models/screen.py`, `models/channel.py`, `pages/channel_renderer.py`)
The recursive methods as recursive functions of channels, over ordered children, with the flags they test: `Flatten(all)` is `flatten` of each
channel, `ChannelsContent` and `Preview` what a screen and a preview list. A bundle
that is subscribed to is flattened without a look at its own `enabled` flag, as in the code; see section 6. `AddChannel` is `add_channel` when
nothing runs in between: what happens otherwise is `ChannelBundle`'s.

### CacheManager (`storage/cache_manager.py`)
A step per passage under the master lock, per SQL statement and per wait for a lock. Threads keep
the index `ref` of the lock they read in the table, `current` is the one in it now: the two
differ once a release has deleted the entry. `Fail` and `Raise` are the two kinds of
exceptions, `ReleaseRaises` the `RuntimeError` of a release of a free lock.

### DownloadManager (`storage/download_manager.py`, `storage/cache_page.py`, `models/asset.py`)
`enqueue_asset` line by line (`Create` ... `Register`), the loop (`Download`, `DownloadRaises`, `Notify`), the post-processing
thread, the requests that render a link (`Link`), `CachePage` (`OpenPage`, `TaskOver`, `ForcePath`), and `Restart`,
which keeps rows and files and forgets tasks and queues. `singleThread` says whether the application runs
under `run_simple`, where a page is rendered to its end before another, or under mod_wsgi.

### CacheDaemon (`client/cache_daemon.py`) and ClientScreen (`client/static/bootstrap.html`)
A version of an asset is its modification date, part of the file's name. `SaveAsset` is `save_at` for 200 and 304,
`AssetFails` the HTTP errors that remove a capsule with its assets, `AssetAborts` those for which no capsule can be found (a style sheet, a script, a
second slide of a removed capsule), which end the request as `ConnectionFails`, the `OSError`, does; `StartRequest` deletes what
earlier requests listed; `Unlink` and `Symlink` are separate, since a reboot may come between them. The request of the
daemon is enabled only by the browser: `ClientScreen` EXTENDS the daemon and has one action per callback of the page: the answers
of the daemon and their errors, the read of the last page, the ten-second timer, and the messages `loaded` and `endOfSlideshow` of the slideshow shown
and of the next one. `shown` and `nextShown` are the files the two frames refer to. `Faults` says what may happen: an HTTP
error of either kind, the loss of the connection, the daemon unreachable, a reboot.

### UserRights (`pages/users_page.py`, `pages/channels_page.py`, `pages/utils.py`, `models/role.py`, `models/user.py`, `models/channel.py`)
`rank` is the pair of columns `super_admin` and `admin`, `role` the `Role` rows. A request passes the gate (`OpenUsers`, `OpenChannel`), which reads
the rank of its user (`seen`: the row is cached in the connection for as long as the request holds it), then either handles a form of the users page, or the list
of permissions of a channel one entry at a time: the level is looked at (`DecideRemove`, `DecideGive`), the row selected, then
removed, updated or inserted, each a statement of its own.

### ContentCache (`plugin_manager/plugin_manager.py`)
`cache` is the entry of one channel in `self.cache`; what is cached is the object `content[o]` itself, which `Dereference` and
`AssetPath` mutate while other requests may render it. `get_plugin_content` is split at each access to the dictionary: the membership and the flag
(`InCache`), the time (`IsFresh`), the content (`Take`), the computation (`Fetch`) and the assignment (`Store`); `EntryIsGone` is the `KeyError` that follows an
invalidation in between. `Configure` and `ForceUpdate` invalidate; `Change` is what nobody is told of: new items in a feed, and `reset-config`.
The version of a content is that of what the plugin read: anything between the row that the request holds and what is there now.

### Subscriptions (`pages/screens_page.py`, `screen_subscriptions_page.py`, `channel_page.py`, `models/screen.py`)
`sub[<<s, c>>]` is who created the row of a subscription, `owner[s][u]` counts the rows of the join table of owners, which has no
unique index; `authorized`, `public` and `active` are what `can_subscribe` and the pages look at. A form is a diff sent by a user
to a page. The page of a screen checks all its entries before it writes (`ChecksFirst`), the others one at a time (`Check`); then
each entry is a `Select` and an insertion, an update or a deletion. The foreign keys and the unique index make an insertion fail
(`InsertFails`). Deletions of screens and channels take their subscriptions with them in steps of their own (`Cascade`).
History: `disturbed` says that another request wrote something that this one is about.

### ChannelConfig (`pages/channels_page.py`, `pages/channel_page.py`, `pages/plugins_page.py`)
`config` is the column `plugin_config` of a channel, read once by a request and written whole (`Save`), `rights` the
rows of `PluginParamAccessRights`, written column by column (`WriteColumn`). `ReadRights` reads the rights on one
parameter. `Merged` is the loop that converts the fields that may be written and stores those that differ from the effective value.

### WebSession (`pages/local_login.py`, `pages/shibboleth.py`, `pages/utils.py`, `common/feedbacks.py`, `app.py`)
The cookie of one browser, whose tabs make requests that overlap. A request takes a copy of the cookie (`Begin`) and writes it
whole, with the messages rotated, when it is answered (`Respond`); in between is the handler of its page. `signed` records who
has signed in with the session. The link that resets a password is looked for (`FindAccount`) and used (`Reset`) in two statements.

### Catalogue (`pages/buildings_page.py`, `pages/screens_page.py`, `pages/channels_page.py`)
`row` and `mac` are tables with unique indexes and foreign keys, which refuse a statement (`Write`). An edit of a screen is
three steps, then one for each address; the roll-back of a channel (`Rollback`) is a statement that others may precede.

### Plugins (`models/plugin.py`, `plugin_manager/plugin_manager.py`, `pages/plugins_page.py`, `pages/channels_page.py`)
`package` is what is installed, `state` the column `activated` or the absence of a row, `plugin[c]` the plugin of a channel and `route[c]` the web
application mounted for it. `Start` is the start of the application; an activation writes the row (`Activate`), loads the code (`Instantiate`) and then
mounts it for each channel (`AddMappings`); a channel is created or edited, then mounted (`AddMapping`). An activation may take the row back
(`InstantiateFails`) or, when the plugin raises anything but an `ImportError`, leave it as it is (`ActivationFails`, `MappingsFail`).

### Processors (`flask/migration_adapter.py`)
One list of processors stands for the three lists of the code. `Dispatch` is the application of all of them when the
application starts, `MapRoute` ... `Remember` what a thread does to mount a web application. `together` records the applications
that two threads found new at once.

### Storage (`storage/storage_manager.py`, `storage/cache_manager.py`, `plugin_manager/plugin_manager.py`)
Rows (`row`) and files (`file`) of assets, created in two steps; the QR codes, which are looked up and stored without a lock
(`FindCode` ... `Link`), the images of the web, which `CacheManager` and `DownloadManager` model and of which only the
row matters here; the deletion of one asset and of all. `Cleanup` runs once a day; the clock is abstracted to whether a row was
referred to today (`NextDay`).

### Transcoding (`storage/transcoding_queue.py`)
One action per step of the worker: `Get`, the output of ffmpeg (`UpdateProgress`, `Decode`), its end, and the call of the callback with either outcome,
each of which may raise. A job whose output cannot be decoded leaves its ffmpeg running (`LostFfmpegEnds`).

### SlideFilter (`plugin_manager/plugin_manager.py`, `renderer/renderer.py`) and Themes (`renderer/renderer.py`)
A slide is the lengths of the texts of its fields; `Only` is a loop that appends what it selects, `FilterCapsule` a turn of the loop over the capsules,
`FilterNonComplyingContent` the loop, and `Render` what is shown, reported and mailed: mails need `emailing`, which the configuration file sets, and no
`silent`. `parent` and `styled` are the directory of themes; `Level`, `Inclusion` and `SortedThemes` are what the class
builds from it by recursion, checked against the transitive closure of parenthood.

Components that share no state are composed in one MC module, where each is explored from the initial states of the
others, which stay there: the states to explore add up instead of multiplying, and no interaction is lost, since there is none. A variable
`part` says which one moves where their specifications alone do not keep them apart. `MCImages` (`CacheManager`, `DownloadManager`) states the fairness of each for the one that
moves; `MCAdministration` has `Catalogue`, `Plugins`, `WebSession` and `EmailDigester`, `MCScreenContent` `ScreenContent`, `SlideFilter`, `Themes` and `Processors`,
`MCSubscriptions` `Subscriptions` and `ChannelConfig`, `MCStorage` `Storage` and `Transcoding`. Modules that are composed so have no name in common, which is why
some have their own names for the initial states and the steps (`CacheInit`, `CacheNext`, `StorageInit`, ...).

## 4. Runs

`pass` runs check the properties on small instances; each `violation` run shows a place where the code does
something else than a comment, a message or a document of the repository says, and is a finding in `PROJECT.json`.

| Run | Instance | Distinct states | Shows |
|---|---|---|---|
| digester_unsent | 1 user, the outcome of this commit | | *violation*: no message is ever mailed |
| bundles | 2 bundles, 1 plugin channel, 2 threads, diffs of 2 | 970 k | until two additions overlap, a store is implemented whose additions are one step, close no cycle and store nothing twice; `ok` means applied |
| content | 3 bundles, 1 plugin channel, 2 children, 2 subscriptions; up to 2 capsules of 2 slides; 4 themes; 2 threads, 2 instances, 2 routes | 68 k | recursion agrees with reachability; slides that do not comply; order of style sheets; processors of web applications |
| screen_disabled | 2 bundles, 1 plugin channel | | *violation*: a disabled bundle provides content to the screens subscribed to it |
| images | 3 threads, 1 name, all exceptions, 3 locks; 2 assets, 1 reader, failures, 1 restart, both deployments | 119 k | the first burst is serialised, no lock is forgotten, calls return unless three overlap or one raised; an asset in flight is accounted for, links are served, downloads settle, pages are answered |
| download_failed | 1 asset | | *violation*: a failed download stays in flight |
| client | 1 asset, 2 changes on the server, all faults | 460 k | what the disk keeps, what plays has its files, no version comes back after a newer one, the screen catches up and never freezes |
| rights | 2 users, 1 channel, 2 threads, 1 entry per form | 554 k | a super administrator remains, administrators make administrators |
| contents | 2 threads, 3 contents, validity 1, 4 instants, 1 change | 2.1 M | how old the content shown may be, what an invalidation guarantees |
| subscriptions | 1 screen, 1 channel, 1 bundle, 2 users, 2 threads, 12 forms of 7 pages; 2 parameters, 2 editors | 992 k | subscriptions and parameters are changed by right, answers are true, owners are once |
| storage | 2 assets, 1 QR code, 2 requests, restarts; 3 jobs, 2 of one file | 151 k | linked files stay, twins go, a success is whole, jobs are answered |
| administration | 2 buildings, 2 screens, 2 channels, 1 address, 10 forms; 2 plugins, 1 channel; 2 accounts, 2 tabs, 1 message; 2 threads; 2 users, 2 mails, delay 1, interval 2, all outcomes | 662 k | what is saved, routes, sessions, messages, links; the mailer implemented (nothing lost, repeated or too early) |

Why the bounds suffice. The races on rows need two request threads, those on the lock table three. A cycle that a
diamond could hide needs three bundles; a cycle made by two requests needs two. In `client`, a request is cut short, or a capsule removed, before or after its one asset is saved; two
changes let an asset be replaced and replaced again while the daemon is about to delete the first. Two users are enough for each to change the other, a form of one entry for two forms to overlap; longer forms are
sequences of entries. A content is older than another when there are two versions; three objects let one be cached while both
threads compute theirs; four instants let an entry expire, be computed and be served. `MaxLocks`, `MaxDiff`, `MaxChildren`, `MaxSubs`, `MaxRestarts`, `MaxChanges`, `MaxTime` bound
otherwise unbounded counters; the theorems lift them, and the intervals of the digester (seconds and hours in the configuration).
The forms of `subscriptions` and `administration` are chosen so that each page meets each other one about the same rows: a right that is
lost between its check and the write, a row deleted before it is used, a name, an address or a building that another form takes. Two assets are enough for two requests to store
the same code; three jobs for one to follow an ffmpeg that was left running on the same file, and for one after a failed callback. Two tabs
let one request be answered within another; a third adds only more of the same, and the theorems of `AccessProofs` have any number.

Exceptions in properties are those that the code needs: each was dropped in turn, and TLC then showed a behaviour
that breaks the property. `overlapped`, `crowded`, `failed`, `swapped` and `met` record that the behaviour in
question happened, and so do `disturbed`, `overtaken`, `late`, `together` and `excused`; section 6 says what it leads to.

`CHECK_DEADLOCK FALSE` is used where the system really stops: in `images`, an exception that is not caught leaves a lock held and every thread may
wait for it; in `rights`, two super administrators who demote each other may leave nobody with any right to act; in `subscriptions`, once
screens and channels are deleted no form is about anything, and in `administration` once an identifier is gone for good; in `storage`, a transcoding queue that was
stopped, or whose worker is dead, with all its jobs enqueued.

### Fairness
* `EmailDigester`: weak fairness of the scheduler thread and of time, strong fairness of taking a due event: the
  scheduler's heap hands out the event that has been due longest.
* `CacheManager` (stated again in `MCImages`): weak fairness of a thread's own steps, strong fairness of acquiring a lock that is free again and
  again (`threading.Lock` does not always leave out the same waiter).
* `DownloadManager` (likewise): weak fairness of each thread; a download ends (aiohttp's default timeout is five minutes); nothing makes a browser ask.
* `MCStorage`: days pass and the thread of the scheduler runs; a request that has begun ends; the worker of the queue is scheduled and ffmpeg ends. Nothing
  makes a request arrive, a job be enqueued or the application stop.
* `ClientScreen`: weak fairness of the daemon's thread (a request to the server ends; it has no timeout, see the hazards), of each callback the browser owes
  (answers, timers, loads) and of the end of a slideshow, which reveal.js reaches by its own timers. Nothing makes the server
  change, fail or the client reboot.

Runs with liveness properties use no symmetry (`AdministratorsAreKept` of `rights` is an action property, and `StoreIsAtomic` of `bundles` the
initial states and the steps of a specification without fairness).

## 5. Theorems

All are proved for every value of the constants that satisfies the module's assumption. A module of proofs holds those of several
modules where these belong to one concern and share no state; each theorem names its specification (`Spec`, `StorageSpec`, `QueueSpec`, `PluginsSpec`,
`ProcessorsSpec`, `CatalogueSpec`, `SessionSpec`, `ConfigSpec`, `ScreenSpec`, `FilterSpec`).

* **EmailDigesterProofs.** `IInv` (types, one call per user, faithful digests, the lock, the intervals) is inductive; `OneCallPerUser` alone is not: that
  a user without an entry has no message waiting needs to know who may drop the entry, which is where `StartSend` sees a digest that cannot be
  emptied meanwhile. `Refinement` and `SpacedMails` follow from `IInv`.
* **ChannelBundleProofs**, bundles. `NeverInItself` for any interleaving, because the check refuses the edge whatever the rest of the graph is. `Sound`: no cycle and no duplicate until two
  additions overlap: an addition that passed may still be made (`CheckStillHolds`), and a new edge into an acyclic graph that passes the
  check keeps it acyclic (`CheckedEdge`). `Applied` for any interleaving. `StoreRefined`: until two additions overlap, what a check saw is still there at the insertion but for
  removals, so that each step maps to one of `BundleStore` or to a stutter (`StoreStepMaps`).
* **ChannelBundleProofs**, screens. `WalkAgrees`: the recursive check finds exactly the cycles that an addition would close, on every acyclic graph. `WalkIsExact` is the core: from a set of
  marked ids the walk ends without raising exactly when no walk down the graph is endless or meets a marked id. `ScreenShows`: flattening gives
  the channels that open paths lead to from a subscription, whether this is enabled or not, each once (`FlattenRight`, `FlatAtSet`, `FirstOccurrencesSet`); it rests on `ScreenIInv`, that the graph stays acyclic, without which
  `flatten` would have no value.
* **ChannelBundleProofs**, slides. `FilterFaithful`, for any contents, any limits and all settings, that of the configuration file included: that a list is the right one in the right order is
  `Only(Slides(content), Complying)`, and `FilterIsRight` goes along the loop with the laws of `Only` on concatenations (`OnlyAppend`, `OnlyConcat`, `OnlyAllOrNone`).
* **ChannelBundleProofs**, plugins. `RoutesAreOfPlugins`: while requests are under way, a wrong route is one that an edit is about to replace, and a missing one is
  one that a request is about to make (`RouteInv`), unless it failed (`excused`); this needs every request about a channel to be about the plugin that the channel has now.
* **ChannelBundleProofs**, processors. `AppsGuarded`, for any number of processors, threads, routes and instances. `GuardInv` says how far the one thread
  that is giving an instance its processors has come (`Progress`): what is registered are the first ones that cascade, what runs is what is applied; and that once an instance is in `appset` all are there
  and no thread is about to add one. That a sequence holds the first `n` processors that cascade, in order, is `Selected`: a map of its places into theirs that
  grows (a recursive selection from a sequence would be opaque to the provers); `SelectedSkip` and `SelectedAdd` are the two ways to go from `n` to `n + 1`.
* **CacheManagerProofs**, locks. Type correctness with any exceptions; `FirstBurstIsSerialised`: before the first row of a name there has been one lock, nobody released it, and those
  who wait do so because somebody creates the row (`FirstBurst`), as long as no call for that name met an exception. `LocksAreUsed`: a lock in the table that is
  acquired has a call that uses it, one that is free has a call that is to acquire it (`HeldInv`). The run's property alone is not inductive: it does not say which of the two
  kinds of calls keeps which kind of lock, and a release may free the lock of another call.
* **CacheManagerProofs**, files. `FilesStay`, whatever requests, cleanups and restarts do: `WrittenInv` says that what a lookup finds, and what a request
  holds past its write, has a file, or was destroyed or deleted with all the assets of its channel, since the row gets its name and its flag after the file is written.
* **DownloadManagerProofs**, downloads. `Accounted` for any threads, failures and restarts, since `in_flight` is set before the callback is added (`InFlightInv`). `LinksServed` with one
  thread for requests and no restart (`LinkInv`): nobody then sees a row whose task `CachePage` cannot find.
* **DownloadManagerProofs**, transcoding. `WholeSuccess`: a job waits in the queue once, and nothing has been done for it yet (`WaitingInv`); an ffmpeg that runs is that of the
  worker's job or of one that was reported as a failure (`TakenInv`).
* **ContentCacheProofs.** `Invalidation`: whatever is cached, or is still to be stored, is at least as new as `floor`. `Staleness`: the retrieval time of a content is
  not before the row it comes from was read, and what was read then was not out of date; the entry that a thread takes is the one it checked, unless `swapped`.
* **SubscriptionsProofs.** `TypeCorrect`, where the conjunct on `sub` (a subscription is of a screen and a channel that exist) needs the order of the cascade: a deletion destroys
  the row after its subscriptions, and an insertion between them is what the foreign keys refuse. `RightToSubscribe` holds from the check to the write: the steps of
  others that take a right away set `disturbed` for the requests that rely on it, and the page of a screen relies on a check of its whole diff. `AnswersAreTrue`: a request
  that nobody disturbed finds its screen and channels, and the entries of its diff that it has treated hold (`Faithful`); `OwnersAreCountedOnce` is an action property from what it says of the row it found.
* **AccessProofs.** For sessions, `SessionInv` says of the copy that each request holds what is claimed of the cookie, since the copy becomes the cookie; `SessionOfWhoSignedIn` and `LastFeedbacks` are
  conjuncts of it, and `OneTimeLink` an action property from what it says of a link whose account was found. For parameters, `ConfigInv` says what a request that was not overtaken
  knows (`Knows`): the rights it read still hold and the column is what it read, or what it wrote; `WrittenByRight` and `ConfigAnswered` follow. For users,
  `SuperRemains`: nobody edits himself and only super administrators edit ranks, so one who is editing is still one
  when the other is demoted, unless two edits overlap; `AdministratorsKept` is an action property, from an invariant that ties a change under way to the level it was decided on.
* **ClientScreenProofs**, the client. `DiskKept`, from `DiskInv`: nobody is about to delete what the page on the disk refers to, except while the one that replaces it is prepared, as long as
  no request was cut short (`CutShort`, without which TLC breaks the property). It rests on
  what the daemon finds to be its latest version of an asset (`LatestVersion`): that a bounded set of naturals has a greatest element is proved from the
  well-foundedness of `<` (`LeastNat`, `GreatestNat`). `ShownKept`, from `ScreenInv`: the browser asks for one version at a time (`CallInv`), and what a frame refers to outlives the next
  deletion, which only a request that was made, or is about to be, brings (`Safe`, `Requested`). Reboots are covered: they forget the list of deletions.
  `NoVersionComesBack`, under all faults: `VersionsInv` orders what plays, what is loaded to replace it, the page on the disk and the page under
  preparation, and `FramesInv` says that a frame that is waiting is never replaced by an older one, because a transition is under way as long as there is one.
* **ClientScreenProofs**, the catalogue. `CatalogueInv` has two halves. `DatabaseInv`: the rows satisfy the unique indexes and the foreign key in every state
  (`Constraints`), since a statement that would break them is refused, and a request finds the rows that it is about (`Served`). `SavedInv`: at each step of a form that nobody disturbed, which of its statements the row already shows.
  `FormsAreAnsweredTruly` and `AddressesAreKept` follow.

What is assumed of the constants is what the code gives: sentinels differ from data, bounds are naturals, outcomes and forms are of the kinds that exist. `CatalogueAssumption` also has
that identifiers of different tables differ (the model has one name space for the rows of three tables) and that the rows present at the start satisfy the constraints of the
database; `ProcessorsAssumption`, that `Given` is a sequence; `BundlesAreFinite`, that a table has finitely many rows; `ScreenAssumption`, that a row is a bundle or a plugin
channel; `FilterAssumption`, that contents are sequences of sequences of slides.

Induction over data is not available as a theorem that takes an operator; where it is needed, it is a least counterexample. Bundles of an acyclic graph: the set of
those from which something does not hold would have a member with no sub-bundle in it. Turns of a loop: `UpTo`, the naturals below a bound. Sequences that appending builds: `ByAppending`. A
recursive function over one of these has the value that its definition says (`WalkAt`, `FlattenEnds`, `LoopEnds`). `SelectSeq` and
folds are opaque to the provers, so that the loops of the code are written as recursive functions of the number of turns.

Two properties are proved and in no run: `SoundUnlessOverlap`, since the steps that `StoreIsAtomic` allows close no cycle and store nothing twice,
and `OthersKeepTheirMacs`.

Only model-checked:
* liveness (`ReturnsUnlessCrowded`, `DownloadedIsSettled`, `PageIsAnswered`, `UpToDate`, `SomethingPlays`, `TwinsGo`, `JobsAreAnswered`), which needs fairness and `ENABLED`;
* `ThemesAreInOrder`, about trees of themes that recursive operators build and sorts of the library order: the provers lose their arithmetic
  in a module with recursive operators, and do not see into `SetToSortSeq`;
* what the violation runs refute.

## 6. What the checks found, and what is not modelled

The findings, which the violation runs show:

* `download_failed`: the asset of a failed download stays in flight (`storage/cache_page.py:36`).
* `digester_unsent`: `email_digester.py` calls `web.sendmail` (line 112) and does not import `web`. The `NameError` is not an `SMTPException`: the first digest that is due ends
  the scheduler thread with the lock held, nothing is ever mailed, and later calls of `add_email` block. `ImplementsMailer` holds as it says nothing of when mails
  come; with the name found it would still, which is why all outcomes are explored.
* `screen_disabled`: `models/channel.py:307` tests the channels of a bundle and nobody the bundle that a screen is subscribed to, which provides its content although it is
  disabled, while `info.yaml:29` says that it does not. `ShowsWhatIsReachable` leaves that case open.
Four more places where the code does something else than its own text says; the models follow the code, and no run is spent on them:

* A theme whose parent is missing ends the import of the renderer with a `KeyError` (`renderer/renderer.py:297`, `ImportFails`), though the message at line 293 says that it
  is ignored. `ThemesAreInOrder` says nothing of such a directory.
* `dereference_assets` takes the reference out of capsules that the cache shares between requests, and puts the path there later: another
  request renders an image with neither (`plugin_manager/plugin_manager.py:277`, `Dereference`, `AssetPath`). Once an asset is gone, the image stays so until the entry expires,
  even if the plugin would now give another (`AssetIsGone`). The docstring at line 268 promises an input that the renderer can use. No property is about it.
* What a request had replaced when it was cut short (the connection lost, or an error status for an asset that is in no capsule) is deleted by the next one,
  although the page on the disk still refers to it (`client/cache_daemon.py:111`, `StartRequest`); `doc/install_ictv_client.rst:6-7` says that past content is displayed. `DiskIsKept` and
  `ShownIsKept` except it.
* `delete_all_assets` says that files are deleted (`storage/storage_manager.py:77`): they are not (`DeleteAll`), and neither are those of the cleanup (`deleteMany` sends no
  signal). `LinkedFilesStay` says nothing of them.

The exceptions in the properties name other behaviours that a reader of the code should know of:

* After an `SMTPException` nothing would be scheduled again while `_last_email` keeps the user: the digest is never mailed, and later messages only join it
  (`plugin_manager/email_digester.py:118`), while the docstring at line 54 promises that all are sent.
* Two requests that add two bundles to each other both pass the check, and the cycle is stored (`models/channel.py:300`); flattening it then
  never ends. `tests/pages/test_channel_page.py:188` tests the sequential case. `SoundUnlessOverlap` and `StoreIsAtomic` except it.
* With three calls at once, a release in `cache_file_at_url` frees the lock that is in the table, which may not be the one that the thread holds: it
  raises with the master lock held, and later calls block for ever (`storage/cache_manager.py:98`). `ReturnsUnlessCrowded` excepts it.
* Channels of a plugin that is deactivated are still shown by screens, not by previews.
* Two additions of the same channel to a bundle store it twice (`models/channel.py:300`).
* `cache_file_at_url` looks for the row before it takes the lock, and not after: a thread that is overtaken stores a second row, and
  every later lookup raises (`storage/cache_manager.py:63`). URLs that differ in their extension share a row.
* With several request threads a link to `CachePage` can be opened before the task is registered, and after a restart the task is
  gone: the reader is sent to a file that is not there (`storage/cache_page.py:34`).
* A reboot between the `unlink` and the `symlink` of the last page leaves the client without one (`client/cache_daemon.py:116`). A call to the daemon that fails
  makes the browser ask again while the daemon still works: the second request deletes what the slideshow shown may use.
* Two super administrators who demote each other at the same time leave none (`pages/users_page.py:120`); two forms on the same role can replace an administrator.
* A `KeyError` outside of the `try` when the cache is invalidated between the test of an entry and its use (`plugin_manager/plugin_manager.py:83`); content stored
  after an invalidation of what it was made from is served as fresh.
* A plugin's form never writes `administrator_read`, although `plugin_config.html` has a box for it: its value goes to `administrator_write` for the
  time of a statement (`pages/plugins_page.py:74-75`).
* The parameters of a channel are written as one column: of two forms that overlap, one is lost, or its user writes an
  old value back that he may not write (`pages/channels_page.py:261`). A form that the plugin then refuses (`MisconfiguredParameters`) is saved all the same; a number out of
  range is ignored without a word.
* Two requests that add the same owner to a screen both insert a row (`pages/screens_page.py:206`): he is listed twice.
* An edit of a screen that is refused for its building has already changed its name; one refused for an address has changed the rest (`pages/screens_page.py:263`, `:279`).
* The cookies of requests that overlap overwrite each other: a login or a logout can be undone by an older request, messages lost or shown twice. A SAML sign-on
  while logged as another keeps `real_user`.
* Disabling or deleting a plugin or a channel leaves its route; a plugin that is deleted but still installed comes back when the page is shown. A channel whose plugin is
  activated before the page has seen its web application has no route until the next start.
* The row of a plugin says that it is activated before anything is loaded (`pages/plugins_page.py:57`): when its module, its `install` or `update`, or its web application raises anything but
  an `ImportError` of the module, the request fails and leaves it activated, with no route.
* Nobody is mailed about slides that do not comply unless the configuration file asks for it (`plugin_manager/plugin_manager.py:61`), whatever the channel says.
* Two threads that mount the same web application at once give it its processors twice, and the second run of `rotate_feedbacks` loses messages (`flask/migration_adapter.py:76`).
* Two requests for the same new QR code store it twice, and every content with that code fails until the cleanup of a later day.
* The thread of the cleanup ends on a day when all that is unused is downloads that failed: the sum of their sizes is NULL
  (`storage/cache_manager.py:135`; `pages/storage_page.py:48` guards against it).
* A callback of a failure that raises ends the transcoding thread, and a line of ffmpeg that cannot be decoded leaves ffmpeg running while the next job may write the same file.
* Themes whose parents run in a circle are loaded without a level, and the list of themes raises a `KeyError` as long as there is one (`renderer/renderer.py:397`).

`PROJECT.json` lists every component with its status. Left aside for good: wording and layout of pages, logging, the schema updates of the database,
the third-party helpers under `libs/`, SAML exchanges. In the modules: the content of files, mails and slides; the clock
of the server but for the digester and the content cache; iframes in cached pages; HTTP errors when downloading an asset (an error page is
stored as the file); files half written when the client stops; the configuration of the application and of plugins that is read at the start; thumbnails; pages that only display.

# simple-torrent: TLA+ models, checks and proofs

simple-torrent is a Go server that drives the anacrolix/torrent client: a REST
API and a browser page add and delete torrents, an engine limits how many run
at once and queues the others, and the state is pushed to the browsers through
velox. This directory holds TLA+ models of its concurrent core, the TLC runs
that check them on small instances, and TLAPS proofs of what holds on every
instance.

## 1. The system

| Component | State | Operations | Interacts with |
|---|---|---|---|
| Task admission (`engine/engine.go`, `engineCache.go`, `waitList.go`, `upsertTorrent` and others in `engineUtil.go`) | `e.ts` (listed tasks), `e.client` (running torrents), `e.waitList`, cache directory, `taskMutex`, the `RWMutex` of `Engine`, one `dropWait` per task | `NewMagnet`, `NewTorrentBy*`, `newTorrentBySpec`, `torrentEventProcessor`, `NextWaitTask`, `RestoreCacheDir`, `DeleteTorrent`, `RemoveCache`, `PushWaitTask`, `stopRemoveTask` | API calls, watcher, start-up restore; one goroutine per running task |
| Change notification and push (`server/server_bg.go`, `/sync` in `server_http.go`) | `TsChanged` (one token), `syncConnected` (no buffer), `syncWg`, `syncSemphor`, `state.Users` | consumer goroutine, `tickerRoutine`, `/sync` handler | takes the read lock of the engine; fed by every change of a task |
| Torrent status (`engine/torrent.go`, start and stop in `engine.go`) | flags and counters of `Torrent` and `File` | `updateOnGotInfo`, `updateFileStatus`, `updateTorrentStatus`, `updateConnStat`, `StartTorrent`, `StopTorrent`, `StartFile`, `StopFile`, `ManualStartTorrent`, `taskRoutine` | processor goroutine and requests change the same object |
| Configuration (`engine/config.go`, `apiConfigure`, `Configure`) | `s.engineConfig`, `e.config`, viper, the file on disk, the client itself | `Validate`, `SyncViper`, `WriteDefault`, `Configure`, `SetConfig` | restarts client and watcher, reloads trackers and RSS, starts the wait-list loader |
| Watcher and trackers (`engineUtil.go`) | fsnotify watcher, `e.Trackers` | `StartTorrentWatcher`, `ParseTrackerList` | adds tasks |
| RSS (`server_rss.go`) | `rssMark`, `rssCache` | `updateRSS`, `serveRSS` | timer, requests and configuration at once |
| Search (`search/`) | provider registry | `Search`, `GetItem`, `RegisterConfig`, `LoadFromURL` | requests |
| Files, statistics, middleware, front end | none that matters | input and output | - |

What is hard here, and what would make each part correct:

* **Admission.** "Is there room" is asked in `newTorrentBySpec` under
  `taskMutex` and again in `NextWaitTask` without it; the list has a lock of
  its own; `upsertTorrent` looks up and inserts under two acquisitions;
  `PushWaitTask` runs it outside `taskMutex`; `Drop` and the start of
  `NextWaitTask` come asynchronously, after the deletion has returned. Correct
  means: the limit is respected, every running torrent can be deleted and gives
  its slot back, `dropWait` is closed once, no task is stranded, no task waits
  behind a free slot, and what is listed can be restored.
* **Push.** A channel of capacity one and a RWMutex are taken in both orders.
  Correct means: every change is eventually pushed, nobody who changes the list
  is blocked for ever, one ticker runs at a time and exactly while somebody is
  connected.
* **Status.** Requests and the processor write the same fields under different
  locks or none. Correct means: `Done` is reported once per torrent and file,
  flags of torrent and files agree, a nil torrent is never used.
* **Configuration.** Several stores are updated one after the other and some
  steps fail. Correct means: stores agree after every call, and nobody uses a
  client that is not there.
* **RSS.** Updates overlap, and what one of them downloads may be applied after
  a newer one has been. Correct means: no item is passed over or shown twice,
  the latest is announced, and a feed keeps updating.
* **Search.** Definitions are replaced one by one while requests go through
  their mirrors. Correct means: a request keeps to one definition and reports
  what its mirrors said, a document is loaded as it reads whatever order a Go
  map is walked in, and no provider vanishes.

`PROJECT.json` lists each hazard at its line.

## 2. Modules and plan

| Module | What it is | State |
|---|---|---|
| `TaskQueue` | admission, queueing, deletion, restore | done |
| `MCTaskQueue` | constant values and symmetry for TLC | done |
| `TaskQueueProofs` | inductive invariant, six theorems and the refinement of `TaskSlots` | done |
| `TaskQueueTurnProofs` | a second invariant, for calls made in turn, and what the queue then promises at rest: six theorems | done |
| `StatePush` | notification, consumer, tickers, `/sync` | done |
| `StatePushProofs` | inductive invariant and four theorems | done |
| `TorrentStatus` | progress, completion commands, start, stop and reap of one torrent and its files | done |
| `TorrentStatusProofs` | inductive invariant and five theorems | done |
| `EngineReconfigure`, `MCEngineReconfigure` | configuration requests, `Configure`, restart and crash of the program | done |
| `EngineReconfigureProofs` | inductive invariant and five theorems | done |
| `TaskSlots` | abstract specification of admission: tasks are listed, and of these some run, never more than the limit. `TaskQueue` implements it | done |
| `RssFeed`, `MCRssFeed`, `RssFeedProofs` | feeds, marks, cache, overlapping `updateRSS`, restart; two inductive invariants, five theorems | done |
| `SearchEngine`, `MCSearchEngine`, `SearchEngineProofs` | provider registry, loads, requests mirror by mirror; two inductive invariants, six theorems | done |

What a next step would be: two configuration requests at once and the watcher
in `EngineReconfigure`, and its composition with the tokens of `StatePush`.

## 3. `TaskQueue`

### State

| Variable | Code |
|---|---|
| `limit` | `e.config.MaxConcurrentTask`, 0 is unlimited |
| `ts` | `e.ts`: a hash maps to an object, `None` when it is not listed. Objects matter because a deletion and a new addition give one hash a second object while a processor still holds the first |
| `closed` | objects whose `dropWait` is closed |
| `queueing` | objects with `IsQueueing` |
| `client` | the info hashes `e.client` holds |
| `waitList` | `e.waitList` |
| `cache` | files of the cache directory, a hash with `.info` (magnet) or `.torrent` |
| `taskMutex`, `engLock` | owner of `taskMutex`; the goroutine between `close(t.dropWait)` and the release of `e.Lock` in `DeleteTorrent`. Every other section under the `RWMutex` is one step, so it only waits for `engLock = None` |
| `pc`, `job` | where each goroutine is and what it has in hand (operation, hash, kind, object, the answer of `isReadyAddTask`) |
| `toRestore` | the listing `RestoreCacheDir` still goes through |

### Actions

A goroutine is interrupted at every access to shared state that one lock does
not cover with the previous one.

| Actions | Code |
|---|---|
| `StartAdd` | the API calls and the watcher; `newMagnetCacheFile` / `newTorrentCacheFile` |
| `AcquireTask`, `IsTaskInList`, `PushWait`, `FindTorrent`, `InsertTorrent`, `AdmitTask`, `AdmitFails` | `newTorrentBySpec` in its order, `upsertTorrent` as its two acquisitions, the start of the processor |
| `RestoreNext`, `LoadFile`, `CreateCacheFile` | `RestoreCacheDir`, `RestoreTask` |
| `GotInfo`, `SaveInfo`, `DropTask` | `torrentEventProcessor`: metadata, the change of cache file, the two selects on `dropWait` |
| `NextReady`, `PopWait`, `StatFile` | `NextWaitTask`, and its loop over elements whose file is gone |
| `StartDelete`, `CloseDropWait`, `Unlist`, `RemoveCache`, `PushWaitTask`, `ReloadFile` | `delete` and `move2wait` of the API |
| `StartReap` | `taskRoutine` starting `stopRemoveTask` |
| `SetLimit` | `apiConfigure` with another `MaxConcurrentTask`, and its loader goroutine |

Two abstractions deserve a word. `StartReap` keeps only the condition that
concerns this module (`waitList.Len() > 0` for `SeedTime`): whether a task is
done, started or old enough is any value it may have. `StopTorrent`, the first
call of `stopRemoveTask`, changes only flags that are not modelled here; its
error is logged and ignored. `Drop` of the external client goes by info hash,
and `AddTorrentSpec` returns the torrent of a known info hash as it is. An
object nobody refers to any more may be allocated again, so a finite `Obj`
does not run out.

### Runs

| Run | Instance | What it shows |
|---|---|---|
| `race` | 2 hashes, 1 slot, 1 request, 2 processors and the `NextWaitTask` they become, 4 objects; add (also of a listed torrent), delete, move2wait, all overlapping; no files left from before, so the restore has nothing to do | `ConcurrencyLimit`, the inductive invariant `IInv` (with the types), and that every step is one of `TaskSlots` (`SlotsKept`), in 1.85 million states |
| `sequential` | 3 hashes, limit 1 or 2 and changing, 3 processors, any subset of cache files left from before; a call starts when the ones before it have settled | `NoStranded`, `NoIdleSlot`, `NoGhost`, `Durable`: the queue does what the user expects |
| `live` | 1 hash, 2 requests, the restore of a magnet file, adds and deletes overlapping, `AddTorrentSpec` may fail, under fairness | `NoOrphan`, `Supervised`, `ClosedOnce`, `SlotsImplemented`, in 414 thousand states |
| `requeue` | violation of `AlreadyQueued` | section 9 |
| `move2wait` | violation of `NoOrphan` | section 9 |

The abstract specification. `TaskSlots` knows no goroutines, locks, files or
objects: a user lists and unlists tasks, a task is started only where there is
room, one that runs is stopped, and the limit is changed. `Slots` maps it onto
`TaskQueue`: the listed tasks are the hashes with an entry in `ts`, those with a
slot are `client`. `SlotsKept` is its safety (run `race`, and a theorem);
`SlotsImplemented` adds its promise that the slot of a task nobody lists any
more is given back or goes to a new task of that hash (run `live`).

Bounds. `Api` and `Proc` are pools: a call waits (`Room`) until a processor
slot is left for every processor the calls under way may start, so the bound
delays calls and removes no interleaving of those that run. Two hashes and one
slot are the least in which tasks compete; a third hash gives the wait list an
order (`sequential`). `MaxWait` bounds the wait list against repeated
`move2wait` calls, which push an element each time. Symmetry is used in
safety runs only, over hashes, objects, requests and processors, none of which
the module tells apart.

What `Supervised` says. A torrent in the client has a processor whose `dropWait`
is the one its deletion closes, or is closed already. With `move2wait` this
fails: the processor may watch an object that is no longer listed (run
`move2wait`), so `Supervised` and `NoOrphan` are claimed without it. It does not
forbid one thing. When a torrent is deleted and added again before the processor
of the old one comes to `Drop`, the client has one torrent for both, and the old
processor's `Drop` takes the new one out: it stays listed, its own processor
goes on watching it, and nothing downloads until it is deleted. No property
here excludes this, since the code does not.

What is left out. `InsertTorrent`, `Unlist` and `GotInfo` send on `TsChanged`
(`engineUtil.go:23`, where `newTorrentBySpec` holds `taskMutex`;
`engineUtil.go:57` with `e.Lock` held; `engine.go:273`), and a send on a full
channel blocks. `StatePush` has those sends, and section 9 a deadlock they lead
to. So it is not claimed here that every call returns, and `SlotsImplemented`
holds as long as the consumer drains `TsChanged`.

Why `sequential` is sequential. When calls overlap, `NoIdleSlot` fails in the
code: `newTorrentBySpec` reads a full client, the last torrent is dropped and
its `NextWaitTask` finds an empty list, and only then the new task is pushed.
`NoStranded` fails when a task is deleted and added again before the old
processor's `Drop`, which then takes the new torrent out, and in the run
`requeue`. In every one of these, calls made one at a time are right, and that
is what the run establishes (`NoGhost` holds of overlapping calls too, as section
10 proves); `move2wait` and the limit 0 are left out
of it because they fail even so: run `move2wait` shows the one; as to the
other, `Validate` sets `NeedLoadWaitList` when the old limit is smaller, and 0
compares as smaller than any limit it lifts (`config.go:188`), so the tasks
queued behind the old limit go on waiting until one that runs is deleted. With
0 added to `Limits`, TLC finds this at once. `Durable`
is stated at rest: between `GotInfo` and `SaveInfo` a magnet has no file at
all and a crash there forgets it, and a `RemoveCache` in that window is
followed by a file that comes back.

Fairness. `Run` is weakly fair: the Go scheduler runs every goroutine that can
run, and these steps wait for nobody. `LockStep` is strongly fair: `sync.Mutex`
hands itself over to a goroutine that has waited a millisecond, and
`sync.RWMutex` serves its waiters in turn. `GotInfo` has no fairness, since
metadata may never arrive, and neither have the calls of the environment.

## 4. `StatePush`

| Variable | Code |
|---|---|
| `token` | `TsChanged`, `make(chan struct{}, 1)`, holds its token |
| `writer`, `readers` | the `RWMutex` of the engine: `writer` also stands for a writer that waits, which stops new readers |
| `unseen` | the list has changed since the last `state.Push` |
| `sem`, `wg` | `syncSemphor`, the counter of `syncWg` |
| `waiter` | the inner goroutine of each `tickerRoutine` |
| `pc` | where each goroutine is |

`Begin`, `Lookup`, `Claim`, `Insert`, `Delete`, `Send` are `upsertTorrent`,
`DeleteTorrent` and the notification of `torrentEventProcessor`; `TakeToken`,
`TakeConnected`, `RLock`, `Push` the consumer; `Tick`, `CallWait`, `SeeDone`,
`StoreSem` the ticker; `Connect`, `AddUser`, `FirstPush`, `Disconnect` the
`/sync` handler. velox is external: a `Push` after a change shows the change.
A new `tickerRoutine` takes any idle name of `Ticker` (a fixed one, since names
do not matter).

| Run | Instance | What it shows |
|---|---|---|
| `push` | 2 mutators with every operation, 1 browser that comes and goes, 2 tickers, under fairness | `OneTicker`, `PushPending`; `OnlyDeadlockHides`, `EverybodyServed`, `TickerEnds`: apart from the deadlock of section 9 every change is shown, every caller and browser is served and the ticker ends with the last browser. Deadlock is not checked, because the code does deadlock |
| `push_deadlock` | violation of `ChangesShown` with deletions | section 9 |

Two mutators are what the deadlock takes, one to fill the channel and one that
holds the lock; two tickers are one more than the semaphore should admit. One
browser that reconnects meets the end of the ticker from both sides; several
browsers differ only in the counter of `syncWg`, which the theorems of section
10 cover for any number of them. `Deadlocked` names the one state from which
nothing moves; the liveness properties allow it and nothing else.

What is not claimed: that a ticker runs while a browser is connected. The
`/sync` handler sends on `syncConnected` before it calls `syncWg.Add(1)`
(`server_http.go:42-43`). The consumer may start `tickerRoutine`, and its inner
goroutine call `syncWg.Wait` on a zero counter, before that; the ticker then
ends at once, and the browser sees no statistics until another one connects or
the list changes.

Fairness: a goroutine that waits for a channel or for the lock again and again
is served (Go queues both in order), and `select` picks among ready cases at
random, so it does not pass one over for ever: `SF_vars(SeeDone(t))`. Nobody
has to call, connect or disconnect.

## 5. `TorrentStatus`

One torrent, from its first processor to its deletion, seen by that processor, by
requests, by `StartTorrent` of `AutoStart` and by reaps.

| Variable | Code |
|---|---|
| `have` | files the client has completed |
| `pieces`, `priority` | every piece has a priority of its own (`DownloadAll`, `CancelPieces`); the files that have one (`SetPriority`). The client fetches a piece at the higher of the two: `Fetched` |
| `listed` | the torrent is in `e.ts`; when it no longer is, `dropWait` is closed |
| `started`, `manual`, `done`, `allDone` | `Started`, `ManualStarted`, `Done`, `IsAllFilesDone` of `Torrent` |
| `created`, `fStarted`, `entry` | entries of `t.Files` made so far, those with `Started`, and an entry that is made and not there yet |
| `reported`, `calls` | whose `DoneCmdCalled` is set, how often `callDoneCmd` was started for each file and for the torrent (subject 0) |
| `proc`, `at`, `flag` | where the processor is, the file `updateFileStatus` has come to, its `doneFlag` |
| `pc` | where each request, reap and the goroutine of `AutoStart` is |
| `early` | history: a call has changed the torrent before its list of files was complete, and none has started or stopped it as a whole since |

`updateFileStatus` takes two steps for a file without an entry (`NewEntry` reads
`Started`, `UpdateFile` puts the entry into `t.Files`) and one for a file with
one, because the processor holds no lock and requests change `Started` between;
`FilesUpdated` sets `IsAllFilesDone`. `UpdateStatus` is `updateTorrentStatus`,
`TaskRoutine` may start one or two `stopRemoveTask` (`SeedRatio` and `SeedTime`
are asked one after the other). `StartTorrent`, `StopTorrent`, `DeleteTorrent`,
`StartFile` and `StopFile` each hold a lock for all they do and are one step;
`MarkManual`, the second half of `ManualStartTorrent`, is a step of its own.
Calls may come before the metadata: `StartTorrent` then marks the torrent as
started and panics on a nil `t.t` (`engine.go:368-376`), which `net/http`
catches; `StopTorrent` panics before it has changed anything; and with a list of
files that is still being made, stopping the torrent or its last file panics
half-way. `Progress` is the client completing a file. That a torrent is due for a reap
(its ratio, its seed time) is a free choice.

| Run | Instance | What it shows |
|---|---|---|
| `status` | 2 files, any of them on the disk already, 2 requests or reaps at a time, `AutoStart` on or off | `TypeOK`, `CommandOnce`, `NothingMissed`, `StartedAgree`, `ReapsComplete`, and under fairness `Reports`; no deadlock, in 730 thousand states |

Two files are the least for which starting and stopping the torrent differs
from starting and stopping a file; two goroutines are what one visit of
`taskRoutine` may start. Fairness: the processor and the goroutines run
(metadata is assumed to arrive, since without it there is nothing to report), and
a closed `dropWait` is not passed over by `select` for ever. The client need not
make progress.

What `StartedAgree` says, and what it does not. With the list complete, a torrent
is started exactly while one of its files is, and what is shown as started is
fetched. The other direction fails, because the two kinds of priority are set
and reset by different calls: `StopFile` resets the file (`engine.go:473`) and not
the pieces `StartTorrent` asked for (`engine.go:376`), `StopTorrent` the pieces
(`engine.go:397`) and not the file `StartFile` asked for (`engine.go:448`); either
goes on downloading what the page shows as stopped. It is not claimed either
after a call that came too early: a torrent that `StartTorrent` marked before its
metadata was there is shown as started and not fetched, and the `StartTorrent` of
`AutoStart` then finds it "already started". Stopping and starting it again puts
it right, and ends `early`.

Left out: the second processor a torrent gets when it is added again while it
runs; two processors may both find `DoneCmdCalled` unset and run the command
twice.

## 6. `EngineReconfigure`

A configuration request on its way through the places that keep the settings,
with the tasks the engine has meanwhile. Each call starts when the ones before
have settled (`Rest`), and `newTorrentBySpec`, whose steps are in `TaskQueue`, is
one step (`Admit`). `NextWaitTask` takes no lock: its check for room, its pop and
its call of `newTorrentBySpec` are three steps, which interleave with those of
another one. That happens even when calls come in turn, because a task that got
two processors (section 9, finding 3) starts two `NextWaitTask` when it is
deleted. Tasks come from torrent files.

| Variable | Code |
|---|---|
| `disk`, `server`, `engine` | the configuration file, `s.engineConfig`, `e.config`. A configuration is a record: `port` and `dir` stand for all that makes `Validate` ask for a rebuild (`config.go:198-201`), `limit` is `MaxConcurrentTask`, and `other` what the client is built with although `Validate` does not compare it: `DisableUTP`, `NoDefaultPortForwarding`, `MuteEngineLog` (`engine.go:85-86`, `100`) |
| `built`, `cacheDir` | what `e.client` was made with, `None` while it is nil; `e.cacheDir` |
| `locked` | `Configure` holds `e.Lock` |
| `held`, `ts`, `waitList`, `cache` | as in `TaskQueue`, with a cache for each directory |
| `job` | what each processor does: its task, whether it finds `dropWait` or `closeSync` closed |
| `next` | how far each `NextWaitTask` is (a processor that has ended, or the loader goroutine) and the element it has popped |
| `call`, `toRestore` | where `apiConfigure` is and what it wants, the files `RestoreCacheDir` has to come to |
| `up` | the program runs |
| `failed`, `lag`, `met` | history: a request has returned an error since the start; one has changed `other` without a rebuild since the client was built; two `NextWaitTask` have run at once since the tasks were restored |

`Save` is `apiConfigure` up to `WriteDefault`, which may fail; `SetConfig`,
or `Configure` (drop, close, or refuse the port), `Build` or `GiveUp`,
`RestoreTask` for each file and `Restored`; `Finish`, which starts the loader.
`Boot` is `Run` with `InitConf` and the restore it starts, `Crash` the end of
the process at any point, `Exit` the end `apiConfigure` asks for when no client
could be built, `EditFile` somebody correcting a file the program does not
start with. `AddTask`, `DeleteTask`, `DropTask` and `Shutdown` are the tasks and
their processors, `NextReady`, `PopWait` and `AdmitNext` are `NextWaitTask`.
`Save` asks for a configuration other than the current one.

| Run | Instance | What it shows |
|---|---|---|
| `reconfigure` | 2 tasks, 4 processor names, 6 configurations: 2 directories, a good and a refused port, limits 1 and 2, two values of `other` | `TypeOK`, `SettingsApplied`, `TasksBack`, `Attended`, and under fairness `ConfigureReturns`; no deadlock, in 1.22 million states |
| `stale_queue` | violation of `NoIdleSlot` with 3 tasks and the limit 2 | section 9 |

Two tasks and the limit 1 make a queue, two directories the least in which
tasks of one must not appear in the other. `MaxWait` delays configuration
requests while the wait list holds more than one element, since every rebuild
pushes the waiting tasks again. A new processor takes a free name, and stale
elements may give one task several; with four names one is always free when a
request or a `NextWaitTask` needs it (TLC agrees; with three it is not), so the
bound removes nothing. Fairness: the
goroutines run. `SettingsApplied` is claimed while no request has failed: after
a failed write or a refused port the server has settings the engine has not, and
a second request with the same values finds no difference, rebuilds nothing and
succeeds. A request that changes `other` and neither port nor directory
succeeds, and the client keeps the old value until it is next built: so
`SettingsApplied` asks for the compared settings always, and lets the others lag
behind (`lag`), which is what the code does.

`Attended` has one conjunct that is claimed only until two `NextWaitTask` have
met. With three tasks more than the limit allows, both may see the one free slot
and pop; the second finds the client full, its task is listed, so
`newTorrentBySpec` does not push it, and nobody holds it any more. An instance
with 3 tasks, 4 processors and the limits 1 and 2, too large for a run kept here
(6.2 million states), has this: without `~met` TLC finds the lost task, with
it the property holds.

Left out: calls that overlap `Configure`. For at least three seconds `e.client`
is nil, and `isReadyAddTask` and `AddTorrentSpec` use it without the engine
lock.

## 7. `RssFeed`

| Variable | Code |
|---|---|
| `posted` | what each web site has published; an item is the number of its publication, which stands for its GUID and its date |
| `conf` | `s.engineConfig.RssURL` |
| `rssMark`, `rssCache`, `latest` | `s.rssMark`, `s.rssCache`, `s.state.LatestRSSGuid` |
| `ticking` | the updater goroutine of `backgroundRoutines` runs: a feed was configured when the program started |
| `pc`, `todo`, `answer` | where each caller of `updateRSS` is, the feeds it has to come to, what its last download returned |
| `boot`, `seen` | starts of the program; history: what this run has read |

`Begin` splits the configured feeds, `Fetch` and `FetchFails` are the download of
one. What follows has a step for each access to the shared data, since
`updateRSS` takes no lock: `ReadMark` looks for the mark in the answer,
`WriteMark` moves it, `LoadCache` and `StoreCache` are the read and the write of
`append(new items, s.rssCache...)`, `CutCache` and `TrimCache` those of the cut;
after the last feed `SortCache` and `Announce`. Those of two updates interleave
freely, and a download takes up to a minute, so an answer may also be applied
long after a newer one. What Go leaves open about such a data race besides (a
concurrent map access ends the program, a slice is read while it is sorted) is
not modelled. `SetFeeds` is `apiConfigure`, `Restart` loses marks and cache.

Two variables are history for the properties: `met`, two updates of this start
were in memory at once, that is between the end of a download and the next one;
`dropped`, what the cuts took.

| Run | Instance | What it shows |
|---|---|---|
| `rss` | 2 feeds, one that lists 1 item and one that lists 2, subscribed to together or not at all, 3 items, a cache of 2, the updater and 1 request, 2 starts | `TypeOK`, `NoDuplicates`, `NoGap`, `LatestAnnounced`, and under fairness `Arrives`; no deadlock, in 1.15 million states |

What is claimed, and what the code does not give. `NoDuplicates`, `NoGap` and
`LatestAnnounced` are claimed until two updates meet in memory: downloads may
overlap and come back in any order, but when two are applied at the same time
both may take the same items for new, or one append may overwrite the other, and
TLC finds each property violated without `~met`. The cache is cut feed by feed
and before it is sorted (`server_rss.go:146`, `153`), so with feeds that list more
than it holds the cut may take the newest item, and what is announced is then
not "the latest" of the comment in line 152: `LatestAnnounced` leaves out what
was cut, and is violated otherwise. The cache of 2 in the run makes this happen.
`Arrives` says that a feed is caught up with again and again while the updater
runs, unless its mark has left the list: then `updateRSS` finds no index
(`server_rss.go:126`), and neither mark nor cache of that feed moves until a
restart. A program that starts without feeds has no updater, and feeds added
later are read only on request. `Arrives` fails without either exception. Three
items are enough for a mark to leave its list and for the cache to overflow.

Fairness: the timer ticks and its goroutine runs, a site that is asked
again and again answers again and again; nothing is asked of requests. `MaxItem`
and `MaxBoot` stop sites and restarts, not the program.

Left out: feeds whose items have no date, which `sort.Slice` dereferences; how
an item is searched for magnets and hashes and shown.

## 8. `SearchEngine`

| Variable | Code |
|---|---|
| `providers` | `e.providers`, by name and part; `"item"` is the key `x/item` of a legacy document that has no `x` |
| `pc`, `job` | where each request is; its operation, provider, the definition it found, the mirrors it asked and what they answered, the time spent, its verdict |
| `load` | the document each `fetchSearchConfig` has, its definitions in the order they are registered, how many are |

Every access to the registry takes `Engine.mu`, so `Request` (one look-up) and
`Register` (one definition) are steps, and a document is loaded in as many steps
as it has definitions. `Ask` is one download of `Search` or `GetItem` and what
is made of it; `GiveUp` the error after the last. `Answer` is all that the loop
tells apart. `Budget` is the 15 seconds of a request: a download may use up any
part of them, the client's own timeout being as long, and the mirrors after
that are asked with no time left. `Typed`, `Merged`, `FromMap` and `Parses` are
`ParseProvidersConfig`, with every order in which Go may walk a legacy map.

| Run | Instance | What it shows |
|---|---|---|
| `search` | 1 request, 2 loads, 2 providers, 3 URLs, a legacy map with item handlers and a list that defines a provider twice and has a definition without id | `OneDefinition`, `HonestVerdict`, `LoadApplied`, `NeverVanishes`, and under fairness `AllEnd`; no deadlock, in 158 thousand states |

One request is enough, since requests only read the registry; two loads are the
least that overlap. `Budget` is 1: there is time left or there is not. Fairness:
a goroutine that can go on does, as every download ends by its timeout. `clean`
is history: `LoadApplied` is claimed for a load that no other overlapped. Two
that do overlap (`apiConfigure` starts one at every change of `ScraperURL`, and
nothing ends the one before) may leave the definitions of the older document.
`LoadApplied` speaks of the mirrors a request would ask and is stated from the
document, not from the parser.

Left out: selectors, JSON paths, the two extractors, URL templates, headers and
decompression; a list with a null element, at which `config.go:112` panics and
which `Docs` cannot express; the mirrors an item keeps from the main entry when
its handler has none, which `FromMap` merges and no property is about;
`ProvidersMap`, which only reads; a document that is served in a
form none of the three attempts accepts, which is `FetchFails`.

## 9. What the checks found

Each is a run whose property TLC refutes; `PROJECT.json` quotes the line that
says otherwise.

1. **A re-queued task is lost** (`requeue`, `engine.go:231`). `NextWaitTask`
   pops a task, another request takes the slot, `newTorrentBySpec` finds the
   popped task listed and leaves it out of the wait list as "already in queue".
2. **move2wait leaves an orphan** (`move2wait`, `engineUtil.go:26`).
   `PushWaitTask` and the `NextWaitTask` its own deletion starts insert two
   objects for one hash; the processor watches the one that is overwritten.
3. **The wait list outlives its tasks** (`stale_queue`, `engine.go:130`).
   `Configure` empties `e.ts` and not the wait list, and the restore pushes the
   waiting tasks again. A slot that comes free is spent on the stale element of
   a task that runs already, which gets a second processor, while another task
   waits with nobody left to start it.
4. **Deadlock on `TsChanged`** (`push_deadlock`, `engine.go:420`).
   `DeleteTorrent` sends on the full channel with the write lock held, while the
   consumer waits for the read lock.

## 10. Proofs

`TaskQueueProofs` proves, for any number of goroutines, hashes and objects and
any limit, from the named assumptions of `TaskQueue` (goroutine names are
distinct, `None` is none of them, limits are natural numbers, `Hash` is finite):

| Theorem | Statement |
|---|---|
| `InvariantHolds` | `Spec => []IInv` |
| `TypeCorrect` | `Spec => []TypeOK` |
| `LimitRespected` | `Spec => []ConcurrencyLimit`, if `"setlimit" \notin Ops` (lowering the limit does not stop running torrents) |
| `EveryTaskWatched` | `Spec => []NoOrphan`, if `"move2wait" \notin Ops` (run `move2wait` shows why) |
| `NeverClosedTwice` | `Spec => []ClosedOnce` |
| `EveryTorrentSupervised` | `Spec => []Supervised`, if `"move2wait" \notin Ops` (section 3) |
| `QueueImplementsSlots` | `Spec => SlotsKept`, if `"setlimit" \notin Ops`: the refinement of `TaskSlots` |

None of the four safety properties is inductive by itself. `IInv` adds what a
goroutine has in hand at each step (`JobInv`); that the sections between
`taskMutex.Lock` and its release are exactly those with `taskMutex = g`
(`MutexInv`); that `engLock` is held exactly between closing `dropWait` and
taking the task off the list, and that the entry does not change meanwhile
(`LockInv`); that one object is listed once (`ListedOnce`); that a torrent in the client has a processor
(`Processed`, from which and `NoOrphan` follows `Supervised`); that whoever was
told there is room still finds it, because only the owner of `taskMutex` adds
to the client (`RoomInv`); that the object about to be admitted is the listed
one or its `dropWait` is closed (`HeldInv`). Each part has a lemma per group of
actions, and frame lemmas name the few actions that matter to a part. TLC
checks `IInv` itself in the run `race`. For the refinement, every action is a
stutter of `TaskSlots` but four: `InsertTorrent` lists, `Unlist` unlists,
`AdmitTask` starts, for which `RoomInv` says there is room, and `DropTask` stops.

`TaskQueueTurnProofs` proves what the run `sequential` checks, for any number of
hashes, goroutines and objects, any limits and any files left from before:

| Theorem | Statement |
|---|---|
| `TurnInvariant` | `InTurn => (Spec => []TurnInv)` |
| `NothingStranded`, `TasksDurable` | `Spec => []NoStranded`, `Spec => []Durable`, if `InTurn` |
| `NoSlotIdle` | `Spec => []NoIdleSlot`, if `InTurn` and `ZeroStays` |
| `NothingRunsUnseen` | `Spec => []NoGhost`, if `"move2wait" \notin Ops`; calls may overlap |
| `SlotsInTurn` | `Spec => SlotsKept`, if `InTurn`: the refinement of `TaskSlots` also when the limit changes between calls, since `RoomKnown` gives the `RoomInv` it needs |

`InTurn` is the mode of that run: a call starts at rest, a listed task is not
added again, the client takes every torrent, nothing is moved back. `ZeroStays`
leaves the limit 0 out where limits change. Section 3 says what happens without
them. Calls made in turn do not make a sequential program: a deletion returns
while the processor it told to end drops the torrent and becomes a `NextWaitTask`,
files change under metadata that arrives at any time, a removal still has its
files to take away when the next task is on its way to the client. So the four
properties, which speak of a program at rest, need an invariant for every step
on the way. `TurnInv` has these parts. Who may act together: at most one goroutine
adds a task or ends one, at most one removes, and they meet only where a removal
has closed `dropWait` of a task that ran (`TurnsTaken`, `PlaceInv`); each
processor runs a torrent of its own (`RunsOnce`). A task in hand does not run,
waits exactly if it was just pushed, and is not the one being removed
(`HandInv`). What `isReadyAddTask` answered, with or without `taskMutex`, is
still so when it is used (`RoomKnown`). The wait list has a task once, with its
file, and no task that runs (`WaitInv`, `LeaveInv`, `RestoreInv`). And, on the way
to the properties: a listed task runs, waits or is in somebody's hand
(`StrandInv`); it has a file, is about to get it or is being reaped (`FileInv`);
tasks wait behind a full client, or behind the loader, or behind one free slot
and the `NextWaitTask` that will fill it (`SlotInv`). The proof has a lemma for each
action; those that only move a goroutine share one (`AdderMoves`, `AdderLeaves`,
`RemoverMoves`, `ProcessorMoves`). `RemovedOnce` says what `syncList.Remove` does to
a wait list that has each task once.

`StatePushProofs` proves `PushInvariant` (`IInv`), `PushTypeCorrect`,
`TickerUnique` (`OneTicker`) and `NoChangeForgotten` (`PushPending`) for any
finite number of browsers and tickers. The type of `wg` needs `Counting` (the
counter is the number of browsers between `Add` and `Done`), and `OneTicker`
needs `WaiterLives`.

`TorrentStatusProofs` proves `StatusInvariant` (`IInv`), `StatusTypeCorrect`,
`CommandsOnce`, `NothingUnreported`, `StartsAgree` and `OnlyCompleteReaped` for
any number of files and goroutines, with calls at any time. `IInv` adds three
parts to the run's invariants: unless a call came early, nothing is started
before the file list is complete, not even the entry about to be put there
(`Untouched`); how far the list has come and that `doneFlag` stands for the files
already visited (`Building`), without which `IsAllFilesDone` says nothing; and
that `DoneCmdCalled` is set exactly where a command was started (`Reporting`).
`StartsAgree` speaks of the piece and file priorities as they are: `Fetched` is
what either of them asks for.

`EngineReconfigureProofs` proves `ReconfigureInvariant` (`IInv`),
`ReconfigureTypeCorrect`, `SettingsAgree` (`SettingsApplied`),
`TasksRestored` (`TasksBack`) and `TasksAttended` (`Attended`) for any tasks,
processors, directories, limits and other settings. The properties speak of a
program at rest; `IInv` says what holds on the way: which stores a request has
come to and which settings the client has (`Stored`), that the listed tasks
together with those about to be restored are those with a file, except while
there is no client, and that what `NextWaitTask` has popped and is about to admit
has a file (`Listed`), that a request finds no deletion and no `NextWaitTask` on
its way (`Alone`), and what a program that does not run has (`Down`). So
`SettingsAgree` is about any configuration, but claims of the settings `Validate`
does not compare only that they are the engine's or lag behind. `Attended` rests on
a second invariant, `AttendedInv`, proved with the help of `IInv`. Its part
`ProcInv` holds always: what the client holds has a processor that will see
`dropWait` (`Watched`), a processor that was told nothing watches a listed
torrent of the client (`Watching`), what was deleted has no file while its
processor has still to drop it (`Gone`). `PlaceInv` holds until two `NextWaitTask`
meet: there is one at most (`Single`), the room it has seen is still there
(`Roomy`), and every listed task runs, waits or has just been popped (`Placed`).
That `NextWaitTask` may throw elements away rests on `Listed`: what has no file is
no task.

`RssFeedProofs` proves `RssTypeCorrect` (`TypeOK`) from the types alone, and
`FeedInvariant` (`FeedInv`) with `NothingPassedOver` (`NoGap`), `ShownOnce`
(`NoDuplicates`) and `LatestIsAnnounced` (`LatestAnnounced`), for any number of
feeds, callers and items and any sizes of list and cache. `FeedInv` has three
parts that hold always: the types, that items are numbered as they are published
(`Numbered`) and belong to one feed (`OneFeed`). The rest, `Calm`, holds until two
updates meet in memory. Then at most one caller is there (`Alone`), and what it
has in hand is what the shared data still says (`InHand`): its new items are those
of a whole answer above the mark, its copy of the cache is the cache. An answer
has no gap between its oldest and its newest item, also when it is applied late; a
mark is an item that was read (`MarkInv`); so an answer that holds the mark joins
what was read to its own newest item (`GapInv`). What was read of a feed is not
later than its mark, so what an answer adds is not in the cache yet, and cutting
and sorting keep each item once (`CacheInv`). What was read and not cut is in the
cache, and until it is announced some update is under way (`LatestInv`); this
needs no hypothesis on the sizes. That the sort gives a list of the same items,
the latest first, is itself proved: `Place` says where an item goes, and takes
each place once.

`SearchEngineProofs` proves `SearchInvariant` (`SearchInv`), `SearchTypeCorrect`
(`TypeOK`), `OneDefinitionHolds` (`OneDefinition`), `VerdictsHonest`
(`HonestVerdict`), `LoadIsApplied` (`LoadApplied`) and `ProvidersStay`
(`NeverVanishes`) for any number of
requests, loads and mirrors, any documents and any deadline. `HonestVerdict` says
nothing of a request on its way; `Asking` does: what it has heard so far it could
not use, and it has not gone past its last mirror. `ParsedWell` says that every
document is parsed to typed definitions, and rests on `FS_Surjection`, since a
legacy map is a finite set that is enumerated in any order. `LoadIsApplied`
follows a load that nobody overlaps: what it has registered so far is in the
registry, the last of each key (`UpToDate`, `CleanInv`). Then the definitions of
the parser are compared with the document: the last one of a provider in a list,
and for a map the one entry of its key, with the mirrors of the document's item.
That a map has a key once is `KeysAssumption`, since the decoder makes it a Go map.

Model-checked only: the liveness properties (`SlotsImplemented`,
`ConfigureReturns`, `Reports`, `ChangesShown`, `OnlyDeadlockHides`,
`EverybodyServed`, `TickerEnds`, `Arrives`, `AllEnd`), which are beyond the
provers used. Every invariant and every action property of a passing run is stated
by a theorem, `NoStranded`, `NoIdleSlot`, `Durable`, `NoOrphan`, `Supervised`,
`ConcurrencyLimit` and `SlotsKept` under the hypotheses given above.

## 11. Not modelled

Overlapping configuration requests: of two at once the second is validated
against settings the first has not stored yet, and one that overlaps `Configure`
meets a nil client. Also the watcher's restart and the tracker list, whose
operations are a few lines without interleaving. Composition: the modules share
calls and not state; the places where they meet are these. `TaskQueue` knows of `TorrentStatus` only that a reap
may start, and takes a send on
`TsChanged` as a step that returns, which the run `push` justifies as long as the
deadlock of section 9 does not strike. Out of scope: the HTML and JSON
extractors (text processing), file download, host statistics, middleware,
logging and the front end (input and output without state of their own), and
the external libraries anacrolix/torrent, velox, fsnotify, gofeed and viper,
which appear only as the engine uses them.

To run: `tlc -config MCTaskQueue_race.cfg MCTaskQueue.tla`, and likewise for
the other configurations; `tlapm TaskQueueProofs.tla`.

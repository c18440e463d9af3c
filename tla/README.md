# Typhon Launcher in TLA+

Typhon Launcher is a desktop game launcher in Go: some 110 000 lines of services
under `src/internal`, wired together by `src/main.go`, with a web front end that
calls them. What is hard about it is not in any one handler but between them: goroutines
that decide under one lock and act after it, folders and journals that a kill leaves half
done, devices and servers that lose each other's answers. This directory models the
services where that is so, checks them with TLC on small instances, and proves with TLAPS, for
every instance, the main safety properties of six of them and that two implement what they
promise.

Paths and line numbers below refer to files under `src/internal/`, unless they begin with `main.go`.

## 1. The system

### 1.1 Parts

| Part | State it keeps | Operations | Hard about it | Module |
|---|---|---|---|---|
| download queue (`download/manager.go`, `playthrottle.go`, `schedule.go`, `tasks.go`) | the list `m.items`, a record and a torrent with two gates for each, jobs, the settings in force, what holds downloads back | add, pause, resume, force, move, remove, stop seeding, `sample`, `applySettings`, `SetGamesRunning`; `schedule()` and `syncPlayLocked` at the end of each | every handler is short, the goroutines between them are not: what a job decided under one lock is stale under the next | `DownloadPolicy`, `DownloadManager` |
| download client (`download/netmanager.go`) | the torrent client, `m.gen`, `m.switching`, `m.resume` | `reconcileNetwork`: `teardownClient`, `bringUp`, `restorePass` | jobs of an old client end after the new one is up | `DownloadManager` |
| download cleanup and hash reservations (`download/cleanup.go`, `reuse.go`, `DeleteData`) | leftovers still to be removed, claims, reservations | delete data, remove leftovers, retry at the next start, reserve a hash around adding | a crash between list, record and files; a download added into a folder that is being removed | `DownloadData` |
| updates of games (`updates/`) | a journal per game, retained copies, stored rollbacks | plan, apply, `swapDirectories`, rollback, `recoverJournals` | a crash anywhere in a swap of three directories, and again during recovery | `GameUpdate`, `AtomicUpdate` |
| relocation (`relocate/`) | a journal per move, manifests, stagings | `runPipeline`, `recoverCommit`, `repointSafe`, sweep | which of two folders is the game after a crash | `Relocate` |
| self-update (`selfupdate/`) | staged version, previous version with its data, start counter, journal of replaced files | stage, swap, `BeginStart`, roll back, recover | a counter and a snapshot that live across processes of two versions | `SelfUpdate` |
| install and removal (`install/`) | one record per installation, jobs, reservations of folders | start, retry, cancel, dismiss, finalise, remove | two installations, a cleanup and a crash over one folder | `Install` |
| saves (`savebackup/`) | copies, the journal of a restore | capture, rotate, restore, recover around a launch | a restore is three renames, and a game may want to start | `SaveBackups`, `AtomicSaves` |
| cloud saves (`cloudsaves/`) | what was last agreed, per game and account | pass, resolve, pull, delete, forget | both sides changed; an answer was lost | `CloudSaves` |
| account sync (`accountsync/`) | device counters, baselines, pending removals, tombstones | a pass: detect, fetch, apply, put, save | repeated, lost and crossing passes of several devices | `AccountSync` |
| library and sessions (`library/`) | games, profiles, play sessions | launch, end, merge | session end against launch; the source of `SetGamesRunning` | seen from the others |
| settings (`settings/settings.go`) | the stored settings, their version, subscribers, appliers | `publish`, undo of appliers | notifications are sent unlocked | seen from `DownloadManager` |
| storage (`storage/doc.go`) | one file per document | `WriteAtomic`, load | replaced as a whole or not at all | assumed by all |
| messaging, social, reviews | caches of a server's state | connect, send, mark read | reconnects | – |
| catalog, sources, metadata, titles, search | indices and caches | refresh, search, match | long pure text algorithms | – |
| install guard, Wine, redist, system requirements | settings of the operating system | apply, check | system calls | – |
| LAN transfer | peers, shares | announce, serve, fetch | several machines | – |
| desktop integration, theme, statistics, diagnostics | presentation | | little state | – |

### 1.2 How they interact

- The front end and other services call the download manager; each call takes
  `m.mu` for its whole length, changes records in memory, writes the list and, if
  the write fails, puts back what it changed.
- `settings.publish` stores new settings under its own lock and then notifies the
  manager without it: `applySettings` may run for an older save after a newer one.
- `library` tells the manager when a game starts and ends (`SetGamesRunning`), asks
  `savebackup` before a launch and tells it, and `cloudsaves`, when a session ends.
- A watcher of network interfaces and the settings decide that the torrent client
  has to go; `reconcileNetwork` takes it down, waits for its jobs and brings
  another one up.
- The torrent client calls back: write errors, arrived pieces, metadata.
- `install`, `updates` and `relocate` ask the download manager to stop, remove or repoint
  downloads before they touch files; `DeleteData` asks `install` first.
- `updates` and `install` register what they have put in place with `library`; `relocate`
  reserves a game there while it is moved.
- `cloudsaves` restores through `savebackup`; `accountsync` reads and writes the library
  and the settings; both talk to the account server.
- `selfupdate` hands over to a worker process that waits for the launcher to end and starts
  another version of it, over the same data directory.

### 1.3 What makes each part correct

- *Queue.* No more downloads start than the limit allows, in the order of the
  list, and no slot stays idle; what is paused stays paused; what a game or the
  schedule holds back moves no data; what is shown as seeding seeds.
- *Client.* No torrent outlives its client; every download comes back with the next
  one as it was; nothing waits for ever.
- *Stored list.* Memory and disk agree when a handler returns; a crash loses
  nothing that was finished; every stored list can be read.
- *Cleanup, updates, relocation, installation, self-update, restores.* After a crash at any
  point, and another during recovery, the user has either the old or the new state, no files
  of anybody else are gone and none are left that nobody knows of.
- *Cloud saves, account sync.* Whatever is lost or repeated, nothing is overwritten that
  nobody gave up, nothing is counted twice, and the devices come to agree.

The hazards of each, at their lines, are in `PROJECT.json`; those that no property
covers say why.

## 2. The modules

```
DownloadPolicy                 rules over the list: operators, no state
  DownloadManager              state, one action per handler, specification, properties
    DownloadManager_proofs     what the rules return and preserve, types, three safety properties,
                               starts and their order, no idle slot
    MCDownloadQueue            values for runs over a client that stays up
      MCDownloadNetwork        values for runs over restarts and client changes
DownloadData                   who may use a torrent and its folder       MCDownloadData
  DownloadData_proofs            three safety properties
GameUpdate                     updates and rollbacks of one game          MCGameUpdate
  AtomicUpdate                   what they promise
  GameUpdate_proofs              three safety properties, and AtomicUpdate is implemented
Relocate                       moves of a game and of the library         MCRelocate
  Relocate_proofs                three safety properties
Install                        installations into one folder              MCInstall
  Install_proofs                 two safety properties
SelfUpdate                     the launcher replaces itself               MCSelfUpdate
  SelfUpdate_proofs              three safety properties
SaveBackups                    copies of saves and restores               MCSaveBackups
  AtomicSaves                    what the player sees
  SaveBackups_proofs             two safety properties, and AtomicSaves is implemented
CloudSaves                     saves of two devices and an account        MCCloudSaves
  CloudSaves_proofs              two safety properties
AccountSync                    the library of two devices and an account  MCAccountSync
```

No module declares a `RECURSIVE` operator, so all of them can be proved about. A service
that another one calls is seen in the caller's module as what the call does or refuses: the
registered place of a game in `Relocate`, the installations in `DownloadData`, the deletion
of a source in `Install`, a restore as one step in `CloudSaves` (which `SaveBackups`
justifies: its restores implement `AtomicSaves`).

### 2.1 DownloadManager: state and code

| Variable | Code |
|---|---|
| `items` | `m.items`, in queue order |
| `dn[d]` | the `Download` record (status, `IgnoreSchedule`, `Seeding`) with its torrent: `engine` is the generation of the client it lives in (0: none in `m.engines`), `dl` and `ul` the two gates (`AllowDataDownload`, `AllowDataUpload`), `have` that every selected piece is there |
| `verified` | `m.verified` |
| `disk` | the stored list, as the next start would read it |
| `policy` | `m.rateCfg`, `m.max`, `m.scheduleBlocked`, `m.gamesRunning`, and the settings that are stored |
| `notices` | settings that were saved and whose notification has not run |
| `jobs`, `spawned` | `m.jobs`; goroutines that were started and have not called `beginJob` |
| `passes`, `booting` | restore passes under way, by generation; the goroutine of the start |
| `net`, `gen`, `resume`, `awaited` | where `reconcileNetwork` is; `m.gen`; `m.resume`; the jobs `teardownClient` waits for |
| `closing` | `m.closing` |
| `asked` | history: what the user last asked of a download; no action reads it |
| `restarts` | bound |

Handlers that run under `m.mu` from beginning to end are one action, including the
trailing `schedule()` and the write: `Add`, `AddTask`, `Pause`, `Resume`,
`ForceStart`, `DownloadNow`, `Move`, `Discard`, `StopAndWait`, `SetGamesRunning`,
`Tick` (`sample` with its schedule and its search for finished data),
`ApplySettings`. `StopSeeding` is two, because it gives the lock up to wait for a
job. The argument `ok` is whether the write succeeds.

A goroutine takes one action per stretch it holds the lock. A restore
(`restoreOne`) goes through `Begin` or `PassBegin`, `Attach` (or `AttachFails`),
`GotInfo`, `Settle`, `Check` and `EndJob`; a completion check (`verifyCompletion`)
through `Begin`, `VerifyPasses` or `VerifyFails` and `EndJob`. Everything else may
happen between two of them.

`teardownClient` is `TeardownDetach` (generation, resume set, torrents),
`TeardownPark` (jobs told to stop, downloads parked) and `TeardownDone` (jobs gone);
`BringUp` installs the client and starts its pass in one step, as the code does
under one lock; the pass goes by the settings `reconcileNetwork` has read at its
beginning, which may be any. A pass of the old client goes on until `TeardownPark`
has cancelled its context (`PassGoesOn`). `Close` and `Quit` are `ServiceShutdown`, `Crash` is a kill at any
moment; both end in `Restarted`, which reads the list back as `loadLocked` does.

Abstractions:

- Data is one bit, `have`. Speeds, progress, peers, names and paths are left out.
- The torrent library is external: it may complete the data of a torrent whose
  download gate is open, fail to write a chunk, and give or refuse metadata.
- A start reads an interrupted status back as `queued`; `disk` holds what is read
  back, so the translation of `loadLocked` is in `Image`.
- A download is removed once and never added again under its identifier, since
  identifiers are never reused.
- The code has a branch for a client that is missing while not offline
  (`failWithoutClient`); the model shows why it is not an action: `HasClient`
  fails only where `Offline` holds.
- A pass of generation 0 is that of the start. It runs under the context of the
  manager and not of its client, as in the code.

Left out of it: `DeleteData`, leftovers and the reservation of info hashes (which are
`DownloadData`), `FetchMetadata` and pending torrents, proxy credentials, bandwidth
limits, and how the route is chosen and retried.

### 2.2 DownloadData

One info hash, the records that may have it and the folders it may be written to.

| Variable | Code |
|---|---|
| `item`, `dest`, `stored` | `m.items`, each record's `Destination`, `downloads.json` |
| `pending`, `reserved`, `torrent`, `engine` | a torrent waiting for `StartDownload`, `m.reserved`, the client's torrent, `m.engines` |
| `job`, `call` | the jobs; the requests of the front end that have given the lock up |
| `del`, `teardown` | `DeleteData`: `d.deleting` and its guard; what is left to do for a removed record |
| `cleanups`, `listed`, `claim` | the leftovers, `cleanup.json`, `m.claims` |
| `files`, `installs` | what is in each folder; the installations that read from it (`install/download_guard.go`) |

Requests are `Fetch`/`Fetched` (`FetchMetadata`), `Start`/`StartCheck` (`StartDownloadFrom`),
`Request`, `AddTorrent`, `Commit` (`AddTask` with and without a check, `JobBegins` the goroutine
it starts), `Look`/`Looked` (`metainfoFor`, which adds a torrent without reserving its hash),
`Inspected` (`InspectReuse`) and `Release`; a restore is `Restore`, `JobAdds`, `Settle`,
`JobReleases`, `EndJob`. `DeleteClaim`, `DeleteGuard`, `DeleteCommit` are `DeleteData`; `TearDrop`,
`TearFiles`, `TearList` the goroutine it leaves behind; `Reserve`, `RemoveLeftover`,
`LeftoverRemoved` the removal of a leftover from the disk-usage page. Paths that overlap
are one folder; the content of files and changes of the client are left out. A restore
of a download that `AddTask` has just made begins once the goroutine of `AddTask` has run.

### 2.3 GameUpdate and AtomicUpdate

One game, its installation and the directories named after it (`dir`: `.staging`,
`.previous`, `.previous.retained`, `.replaced`, the copy for a repair, the files a patch
replaced). `lib` is the version the library has registered, `kept`/`keptDisk` the record a
rollback is offered by (`rollbacks.json`), `journal` the `SwapJournal`, `writer` a download
that writes into the installation, `job` what is under way and its step, `sweeping` the
removal that follows `HandleSessionEnded` and `sweepPrevious`.

Four kinds of update, a repair and a rollback share the steps: `JournalSwap`, `Retain`,
`Aside`, `Install`, `Resolve`, `CarryOver`, `Register`, `Keep`, `Clear` (`clearJournal`),
`Drop` for a swap; `Slot`, `Copy`, `Mark`, `Write`, `Stop`, `Discard` in place; `Clean`,
`Merge`, `Unmerge` for patches; `Turn`, `Away`, `Back`, `ReLink`, `UnKeep` for a rollback.
`Restore`, `SetAside`, `PutBack`, `Replaced`, `Unretain`, `Forget`, `ReKeep`, `ReLib` are
`restoreSwapFiles` and `recoverSwapJournal`, both after a failure and at the next start.
Each of them may fail, and `Crash` comes between any two, also during recovery. `removeTree`
is taken to succeed except for the retained copy, whose failure the code handles. A shutdown
is a failing step and a crash.

`AtomicUpdate` is the promise: a version, one to go back to, and steps that change both at
once. `GameUpdate` implements it under the mapping `installed <- RecoveredVersion`,
`kept <- RecoveredKept`: what the next start would make of the disk. It is not the
registered version: between the journal and the register the program is already bound to
what recovery would do.

### 2.4 Relocate

`dir` and `staging` are what is at each place and beside it (contents are numbered by the
plays that are in them), `lib` the registered place, `lock` the reservation in the library,
`tree`, `dest`, `root` the downloads, the records that point at them and
`settings.LibraryPath`; `jobs` is `moves.json`, `manifest` the hash manifests, `at` and
`recovery` the steps of the goroutines and of `recoverAll`. A game goes through `Start`,
`RenameDir` or `BeginCopy`, `BuildManifest`, `CopyDir`, `Verify`, `Commit`, then `Repoint`,
`Cleanup`, `RemoveSource`, `CompleteJob`; a library through `NextItem` for the game, the
downloads (`StageItem`, `MoveTree`, `RemoveTree`, `Rebase`, which leaves the records of
another root alone) and the settings (`SetRoot`).
`RecoverJob`, `RecoverPrepare`, `RecoverCopy`, `RecoverCommit`, `Attempt`, `RetryRepoint`,
`RetryCleanup`, `GiveUp` are `recover.go`. `LookAtStaging`, `ReserveStaging`, `SweepStaging`
are the deletion of a staging from the disk-usage page. Screenshots go through the same
pipeline with nothing to repoint.

### 2.5 Install

Two installations, each from a source of its own, into one folder. `rec`, `stored` are
`s.items` and `installations.json`; `source`, `partial`, `dest` the folders; `job`, `jobs`,
`cancelled` the goroutine of each and `s.jobs`; `start`, `retry` the calls that have given
the lock up; `clean`, `held` the cleanups and the reservation they hold; `library`,
`removing`, `asked` the registered games and what the user removes himself. A job goes
through `JobPrepare`, `JobRemember`, `JobClear`, `JobRename` or `JobCopy`, `JobCommit`,
`JobFinalize`, `JobFind`, `JobRegister`, `JobComplete`, `JobAfter`, `JobEnd` (`flow.go`);
`Start`, `StartReclaim`, `StartDrop`, `StartCommit`; `Cancel`, `Dismiss`, `Retry`,
`RetryFinalize`, `Confirm`; `Sweep`, `Check`, `RemoveDest` (`discard.go`); `RemoveGame`;
and `Crash` with what `ServiceStartup` makes of the records (`Loaded`). The rename of a nested root
out of `.partial` and the removal of what is left there (`flow.go:817`) are one step; a user confirms
the executable of an installation (`Confirm`) when its job has ended; the removals of a recovered move succeed.

### 2.6 SelfUpdate

`exe`, `parked` are the program and its `.previous`; `app`, `run` how far the launcher has
started and as which version; `state`, `avail`, `pending`, `skipped`, `busy` the service,
`store` its `state.json`, `cache` the artifacts; `attempts` is `startup.json`; `worker`,
`spec`, `todo` the worker (an update without a snapshot is `bare`); `prev`, `staging`, `noted` the snapshot, the one being taken and
`snapshot-failed.json`; `journal`, `kept` the journal of replaced files and the copies
beside it; `live`, `latest` the state files, as schema and generation. `Download`, `Apply`,
`RollBack`, `Dismiss` are the user's; `Waited` … `Revert` the worker (`worker_run.go`);
`LaunchUndo`, `LaunchSettle`, `LaunchGuard` the first lines of `main` in their order;
`Succeeded` and `StartFails` how a start ends, `Write` a later write of a state file.

### 2.7 SaveBackups and AtomicSaves

`live`, `previous`, `staging` are the saves folder and its two neighbours, `journal` is
`restore.json`, `snaps` the copies, `legacy` the one earlier versions kept; `op` holds the
lock of the game, `due` waits for it; `game`, `hook` a launch and what it waits for. A
restore is `Target`, `Safety`, `WriteJournal`, `CopyOut`, `Ready`, `Check`, `Aside`,
`Place`, `Resolve`; `Recover` settles the journal by which folders exist; `TakeIt` captures
and rotates; `BeginLaunch`, `Timeout` are `SessionStarting`. `AtomicSaves` is what the
player sees, and `SaveBackups` implements it under `Saves` and `Copies`: a folder moved
aside is still the saves, the verified copy next to it still a copy.

### 2.8 CloudSaves

Saves are the set of the plays in them, so that one continues another if it contains it.
`local`, `cloud`, `st` are the folder of each device, the copy of each account (external)
and what each device recorded of each; `job` holds `opMu`; `playing`, `account` the session
and who is signed in; `dropped` is history. `Decide` is `decide` and `syncGame`; `Build`,
`Send`, `SendAgain`, `Uploaded` an upload with its `If-Match`; `Fetch`, `Restore`,
`Restored` a download; `ResolveConflict`, `PullRemote`, `SyncNow`, `Delete` the player's.

### 2.9 AccountSync

One game and one setting, on devices that each run the passes of `attempt`.

| Variable | Code |
|---|---|
| `lib`, `sett` | the card of the game in `library` (present, installed, seconds, stamp of its status), the setting |
| `mem`, `disk` | `s.state` and the stored `syncState`: device id, revision, baseline and device counter, pending removal, tombstone |
| `pass` | the local variables of `attempt`: what was read, the request, the state to store |
| `srv` | the server (external): a counter per device id, the stamp that wins, whether and when removed, the revision of the settings |
| `now`, `done` | the clock of the stamps; bounds |
| `mine`, `readded` | history: what was played after the first pass; that the user put the card back |

`Begin` is `Sync` up to the stored removals (`Detected`); `Fetch` the answer with
`applyRemoteSettings`, `Restores`, `applyRemoteRemovals` (`RemovesCard`) and `hydrate`
(`AddsCard`); `Look` the second look at the library after either, before which the user may act;
`Work` the results (`Delta`, `upToDate`, `Heard`); `Put` a request that is
taken, refused with one second attempt, or lost on either way; `Save` a pass with nothing to
say; `Apply` is `ApplySync` and, after it, `s.state`. Answer and local merge are one step,
since nobody else reads the answer in between; so are the server's answer and the write of
the state that follows it, with the failure of either as an outcome. The server is modelled
as the client relies on it: a counter per device id carries its whole value, the later stamp
wins, a removal clears the counters, the card of a removed game is taken only with the stamp
that restores it, and a request of another revision is a conflict.

## 3. The runs

| Run | Instance | Question | States |
|---|---|---|---|
| `queue_rules` | 2 downloads, 1 or 2 slots, seeding and upload toggled, symmetric | do the rules hold under every order of requests, games, windows, settings and finished data | 261 000 |
| `network_requests` | 1 download in any stored state, 3 generations, started without a client | can a request, or a failed restore, at any moment of a client change strand the download or put an old torrent back | 146 000 |
| `network_progress` | 2 downloads, 3 generations, fair | does every pass, teardown, check and finished download come to its end | 29 000 |
| `restarts` | 2 downloads, 1 restart, failing writes | closing or killing the program at any point: do memory and disk drift apart, is the stored list readable, is a held gate open | 1 420 000 |
| `download_data` | 2 records, 1 folder, 1 request at a time, failing writes, a crash | is data removed only when nobody uses it, and is what could not be removed written down | 1 081 000 |
| `game_update` | 3 versions | is there always a place to come back to, does an update look atomic, does every job end | 323 000 |
| `relocate` | 2 roots, 1 job, 1 play, cancel, library, sweep | is the newest copy kept and found, does every move end | 1 867 000 |
| `install` | 2 installations (unpack or move; move), 1 crash, failing writes | has every registered game its files, is the only copy kept | 703 000 |
| `self_update` | 3 releases, 2 state files, installed and portable, 1 write, 1 crash | is there a program that starts and reads its data, is the rollback kept | 708 000 |
| `save_backups` | limit 1, 2 plays, 1 request, 1 fault, 1 crash | does a game run only on whole saves, is a restore atomic, does a launch end | 694 000 |
| `cloud_saves` | 2 devices, 2 accounts, 2 plays, 2 requests, 1 switch, 1 fault | is anything overwritten that nobody gave up, do the devices agree in the end | 1 488 000 |
| `account_sync` | 2 devices, 2 plays, 1 each of status, setting, removal, adding, fault; 3 requests in all | is anything counted twice or missed, does a removal stay one, do the devices agree in the end | 1 235 000 |

All of them finish exhaustively; none uses a state constraint. A property with several parts
is a conjunction of named ones (`Consistent == TypeOK /\ ...`); the parts are in the modules,
each with its comment. Every property has a mutant: a named variant of a definition, beside it
in the module, that is a plausible slip in that code and makes TLC find the property
violated in the same run. Deadlock is checked where a state without a step would be a defect;
in the download runs and in `install` a state in which nothing is under way, no event is left
and the bounds are used up is legitimate.

### 3.1 Bounds, and why they are enough

- *Downloads*: two are needed for a slot to hand on, or a pass with somebody to pass over; one
  where the hazard is between the goroutines of a single download. Three generations are the
  client of the start, one teardown, and the next client. `Events` are the requests and faults
  the environment may produce at any time and in any number.
- *DownloadData*: two records over one folder is the least in which one's removal can take
  the other's files; a record that is gone is never made again.
- *GameUpdate*: three versions are the one registered, the one kept and a new one; crashes
  and failures are not bounded.
- *Relocate*: one job at a time moves the game; a play between two moves is what makes one
  copy newer; the recovery gives up after 2 attempts instead of 3, which only shortens the run.
  Two bounds are in the module: without `again` no move begins while a failed one is not settled
  (`Settled`), or over half a tree of downloads (`Mends`, which two roots always meet).
- *Install*: two installations are an owner and somebody in its way; copying leaves the source as
  unpacking does.
- *SelfUpdate*: three releases are the previous, the present and the next; one file changes
  its schema at each of them and one only once; a start is given up after 2 attempts
  instead of 3.
- *SaveBackups*: a limit of one copy makes every rotation decide; one fault and one crash can
  fall in one restore.
- *CloudSaves, AccountSync*: two devices are the two sides of a conflict; a fault is a lost
  request, a lost answer, a failed write or a crash at any step. Other divisions of the same
  effort were checked and pass: for `CloudSaves` three faults with fewer plays or switches; for
  `AccountSync` two removals or two faults with `MaxAsked = 4` and without status or settings.

What a *Bound:* or *A bound:* comment in a module leaves out is an event the code does not exclude and
under which a property fails; section 3.4 lists them. Each is an element of `Events` (or
`Races`), so that adding it to the configuration shows the counterexample.

`OfflineSpec` is the behaviours that begin while the route is still being checked, so
that no restore runs until the client is up. `queue_rules` uses it because its list
is empty. `network_requests` uses it because a request that comes between the start and
the first look of its restore goroutine leads to the first entry of 3.4, after which
nothing else can be learnt; the pass of the start itself is in all the runs of `Spec` and
`FairSpec`.

### 3.2 Fairness

- *DownloadManager*: weak fairness of each goroutine by itself: each job, each goroutine
  that was started and has not registered, each pass, the goroutine of the start, the
  teardown once it has begun, and the sampler, whose ticker never stops. The mutex is not held
  over anything that waits. Requests, settings, games, arriving data, faults, the return of
  the network and the end of the program are owed to nobody, and the outcome of a write
  is not subject to fairness.
- *DownloadData, Install, Relocate*: weak fairness of each job, call and cleanup that has
  begun, and of the recovery; every wait of theirs has a limit. A call of the user may be
  left at any point.
- *GameUpdate*: weak fairness of the job but while it waits for a download (`Waits`): updates
  and repairs alike wait for one that is queued, paused, verified or looking for its metadata
  without a limit, `updateStallTimeout` is measured while it is downloading
  (`updates/apply.go:482`). *JobsEnd* says that a job ends or waits for one download for ever.
- *SelfUpdate*: the worker, the start and the service run; the user owes nothing.
- *SaveBackups*: what holds the lock goes on; who waits for it gets it (the lock is a
  channel of capacity one, `service.go:211`, which serves those who wait in their order, hence
  strong fairness of `BeginDue`); a launch has a
  deadline of 20 s (`Timeout`). The player owes nothing.
- *CloudSaves, AccountSync*: the loop of each launcher begins a pass at every tick and
  finishes it. Nothing else is owed; faults are bounded, not fair.

*JobsEnd* and *MovesEnd* are stated for behaviours in which crashes stop.

### 3.3 What the runs show

- *GatesFollowRules* (no data while held, uploads only of complete ones, gates as the status
  says, seeding is backed): every handler that opens a gate asks what holds downloads back,
  and every change of that reaches every open gate, also that of a download with a job.
- *NoIdleSlot, StartsFollowQueue*: `schedule()` is called wherever it has to be, fills the slots
  and never more, in order. A forced start is exempt.
- *StatusIsKept*: what has finished stays finished (`FinishedStaysFinished`), and while the client
  stays up and no restore is under way (the list of `queue_rules` is empty at the start) nothing
  but the user ends a pause (`PauseIsKept`).
- *EnginesBelongToClient, NothingForgotten*: jobs of an old client put nothing back; a
  status that refuses the user's requests always has a job; nothing stays in the queue
  without a torrent.
- *WorkEnds*: passes, teardowns, checks and finished data: nobody waits for ever.
- *TypeOK, HeldMovesNoData, ListIsDurable*: the stored list over restarts.
- *Tracked, LeftoverIsNobodys, ReservationsEnd* (`DownloadData`): a crash or a failed
  write anywhere in `DeleteData` leaves either the record or an entry of the leftovers; a
  leftover is removed only while no download covers it; a reservation is always given back.
- *Recoverable, Consistent, StepsAreSafe, AtomicSpec, JobsEnd* (`GameUpdate`): see 2.3; what is
  offered to go back to is there in full.
- *NothingLost, StepsAreSafe, MovesEnd* (`Relocate`): the newest files survive in one piece and
  the next start finds them, unless its attempts are exhausted and it says so; the library's
  root moves after its downloads; a move that is done has left one copy.
- *FilesAreKept, InstallEnds* (`Install`): a registered game is whole, and some whole copy of
  what was downloaded exists until the user removes it.
- *Consistent, DataIsLatest, KeepsRollback, OperationsEnd* (`SelfUpdate`): there is a program
  to start, it can read the data, the data is the last written, and a version to go back to
  is given up only for a newer one. One exception is part of *KeepsRollback*: an update that
  reports an error after the program has been replaced (an installer that exits with one, or a
  digest that cannot be read, `worker_run.go:201`) drops the snapshot it has just taken; the one that
  was on offer before stays.
- *RunsOnItsSaves, AtomicSavesSpec, Settles* (`SaveBackups`): see 2.7.
- *NeverSilently, Converges* (`CloudSaves`): what leaves a folder or the cloud is in what
  replaces it, or its owner gave it up; devices that differ in the end have a conflict on
  record. Of saves that fit the limit of the server: those that do not are refused at every pass.
- *Consistent, RestoredOnPurpose, Converges* (`AccountSync`): the play time the server adds
  up is never more than was played and never less than what a synchronised device still has
  to send; a removal is taken back only for a user who put the card back; the devices come to
  show what the server holds.

### 3.4 Where a property fails, and what is left out for it

In the download manager, against a comment or a test of the code:

- During the pass of the start the user resumes a download further down. When the pass gets
  there the torrent is already attached, `reattach` reports a conflict, and the running
  download is marked failed (`download/manager.go:2225`); `reuse.go:343-344` says a download
  must not conflict with itself.
- A download that `DownloadNow` let through finishes outside the window. `completeLocked`
  (`manager.go:1936`) clears the exemption and leaves the upload gate open;
  `schedule_test.go:276` says it seeds only inside.
- `onWriteError` compares generations, then starts `markFailed`, which does not; after a
  teardown in between, the parked download is failed by the old client (`manager.go:1031`),
  which 1026-1027 rules out.
- A reseed was spawned by `applySettings` and has not registered; `StopSeeding` sees no job,
  detaches and returns; then the reseed attaches and seeds (`manager.go:2608`, against
  2605-2606).

Events left out of the run that checks the property:

- *PauseIsKept* with `network` and a stored paused download: during the recheck of a
  restore its status is `verifying`, so a teardown parks it as `queued`
  (`netmanager.go:726`) and the next client starts it. Also with `addTask`: a task paused
  during its check is queued by it (`tasks.go:187`). And, without either, for a stored queued
  download the user pauses between the moment its restore pass begins and the end of its job:
  `settleRestored` uses `paused` of the snapshot the pass began with (`manager.go:2331`,
  `netmanager.go:139`) and queues it again; no comment or test speaks of it.
- *NothingForgotten* and *WorkEnds* with `noMetainfo` and a stored seed: `reattach` sets the
  status of a finished download to `metadata` (`manager.go:2366`), which no request accepts and
  the finished branch of `settleRestored` does not set back. Also with `network` and `addTask`:
  the settle job ends on the second client with the download queued and no torrent. And with
  `network` and a stored queued download that completes: its check registers between
  `TeardownDetach` and `TeardownDone` (`beginJob` does not look at the generation,
  `manager.go:1861`), completes it without a torrent, and makes the next pass skip it as busy;
  likewise when `writeError` is combined with requests during a client change. And, in the
  instance of `network_requests`, with each of five more: `crash` and `close`, with one restart
  (the pass of the start and the pass of a client change both come to the download, and each
  acts on a record the other has changed since), `verifyFails` (a failed check, not yet
  ended, of a download the user resumes during the teardown: the next pass skips it as busy),
  `stopSeeding` and a change of settings (a download that finishes before the pass of the
  start gets to it and then gives up its torrent is restored by that pass, or failed by it, as the
  unfinished one of its snapshot, and its job ends with the status at `verifying`).
- *GatesFollowRules* with a client change, settings toggled and a stored seed: the pass takes the
  seeding flag off (`netmanager.go:763`) from the snapshot it began with, after a change
  of settings has brought the seed back. Also with `persistFails`: `ForceStart` leaves gates open,
  which the comment at `manager.go:1121` accepts.
- *GatesFollowRules*, what is left out one by one, with one download, an empty list and the client
  down at the start: each of `addTask`, `network`, `crash`, `close`, `noMetainfo`, `writeError` and
  `persistFails` alone breaks it; each but `persistFails` breaks *StatusIsKept* as well, and so
  does a stored list (the pass of the start, `manager.go:2225`). These are the hypotheses of the
  theorems in 4.
- *NoIdleSlot* with `stopAndWait`: `StopAndWait` does not call `schedule()` (`manager.go:2543`).
- `DownloadData`, `startIntoClaim`, *LeftoverIsNobodys*: `StartDownloadFrom` does not look at
  the claim of a leftover that is being removed (`manager.go:848`), though `cleanup.go:227-230`
  says every new download is barred. And `dropsOthers`, *Tracked*: the entries of a folder are
  dropped from the list whosever they are (`cleanup.go:113`). So is that of a deletion written down
  between the removal of the folder's files and the write that follows it (`Unlisting`), and that
  of an earlier deletion when a later one fails to write its own (`TakenBack`).
- `GameUpdate`, `lateSweep`, *Recoverable*: `HandleSessionEnded` and `sweepPrevious` give up
  the record under the lock and remove `.previous` after it (`updates/service.go:1007`); an
  update that begins in between retains its own version there and loses it. Also seen: a
  rollback killed between clearing its journal and removing `.replaced` (`apply.go:1086`) leaves
  that folder, and every later rollback of the game is refused by it.
- `Relocate`, `again`, *StepsAreSafe* (two jobs): a move fails at its repoint; the game is
  moved again and played; the retry of the first, whose source is gone, points the library
  back at the older copy (`recover.go:216`). And *Consistent* (three roots), found by the proof:
  the removal of the old tree of downloads stops half-way and the recovery, which finds both
  trees and no manifest for either, gives the move up (`recover.go:222`). The library is then
  moved to a third root: what is left of the tree goes there and the records follow it
  (`download/repoint.go:128`), while the whole tree stays at the second.
- `Install`: `lateSweep`: the sweeps of `.partial` at the start hold no reservation
  (`service.go:747`). `retryReserved`: a retry of an installation whose files are in place
  does not look at a folder held for removal (`service.go:1320`). `retryOthers`: it takes
  the files of another for its own. `staleOwner`: what removes the folder for one
  installation does not look whose files are in it. `Dismiss` does not see an owner whose
  record was removed (`discard.go:51`); and, with three installations and no crash at all, a
  first one fails and leaves the folder marked as its own, a second one moves its source there
  and is refused by the library, and the start of a third takes what it finds for the leftover
  of the first (`leftoverLocked`, `discard.go:161`), whose own source `discardBlocker` finds in
  place, and removes the only copy of the second. `cancelUnjobbed`: a `Cancel` of one that is
  being finalised without an entry in `s.jobs`. `crashSweeping`: only the start that follows a
  crash sweeps `.partial` (`service.go:380`, 409), since it stores the record as interrupted
  first; killed again before the sweep, the half stays, and may three crashes later be taken
  for the half-done move of another installation that has lost its source (`service.go:809`).
  With each of them *FilesAreKept* or *Consistent* fails.
- `SelfUpdate`: `undoFails`, *DataIsLatest*: `main.go:348` logs that the files could not be put
  back and goes on. `crashParked`, *Consistent*: killed between the two renames of a portable
  update, nothing is left under the name the user starts (`portable_apply.go:63`), so that
  the next start the comment at 30-31 relies on cannot come.
  `exeLost`, *Consistent*: an installer that `applyTimeout` cuts off in the middle of a write
  (`worker_run.go:29`), or a parked program that cannot be renamed back
  (`portable_apply.go:74`), leaves no program that starts, and nobody to put it back.
  `settleFails`, *KeepsRollback*: a staged snapshot that can be neither removed nor moved in is
  only logged (`main.go:348`, `worker_run.go:190`), and the next update drops it, although it may be the
  only one of its version. `startsTwice`, *KeepsRollback*: the launcher is started by hand while
  the worker replaces it.
- `SaveBackups`: `noHook`, *RunsOnItsSaves* and *Consistent*: with the copy before a launch
  turned off nobody looks at an unfinished restore; the game writes saves of its own, and
  `resolve`, with those, the ones moved aside and the copy next to them, refuses to decide.
  `quickSession`, *AtomicSavesSpec*: a session that begins and ends between the two looks of a
  restore (`restore.go:165`).
- `CloudSaves`, *NeverSilently*: `quickSession` (the game is looked at once, before a download,
  `sync.go:196`), `unseenCopy` (`ResolveConflict` overwrites whatever the cloud has by now,
  `ops.go:104`), `switchMidPass` (the client takes whatever token is current, `main.go:512`).
  Without `unseenCopy` two devices that both overwrite would wait for each other (`Overwriting`),
  where in the code the later one wins; the two requests of the run do not get there.
- `AccountSync`: `removeAgain`, *RestoredOnPurpose*: a card is removed on one device,
  the other follows and keeps a tombstone; it is put in again on the first and hydrated on the
  second; removed on the first once more, it is still on the second with the old tombstone, and
  `service.go:370`, which never compares the stamps, takes it for a restore.
  `playMidPass`, *Consistent*: a session ends between the snapshot and `ApplySync`, the larger
  total is kept and the seconds between are nobody's (`service.go:605`). `playBehind`,
  *Consistent*: the stored baseline is ahead of the library after a crash between
  `service.go:597` and 609 (or on a card put in again before a pass has missed it), and what
  is played next is not counted until it has caught up. And, against no property: a card the user
  removes between `hydrate` and the second look (`service.go:397`) is one the device forgets, so that
  the next pass adds it again.
- Left out with no event of its own: in `Relocate` a game that is removed from the library while
  its move is recovered (`ErrGameRemoved`, `recover.go:106`); in `Install` a confirmation that
  arrives between the question and the end of the job that asks it (`service.go:1208`), and files put
  into the folder, or a game registered from it, between the two looks of a start (`StartCommit`).

## 4. The proofs

A theorem holds for every value of the constants that the named `ASSUME` of its module
allows: any number of downloads, folders, requests, versions, state files, devices, accounts,
any limit and any bound on faults, crashes and plays. Those assumptions type the
constants, and beyond that say:

- `IdsFinite`, `ManagerConstants`: there are finitely many downloads, and no stored list has two
  of one identifier (`newID` draws them at random).
- `DownloadDataConstants`: there is a folder, and neither "nowhere" nor the folder of metadata is
  one of them.
- `InstallConstants`: the marks for "nothing" and "an empty folder" are no installation's name.
- `UpdateConstants`, `SelfUpdateConstants`, `SaveBackupsConstants`: there is a version, an attempt,
  a play and room for one copy; a schema never goes down from a version to the next.

Where a theorem needs more it says so as a hypothesis: that some element of `Events` or `Races` is
left out, because the code does not withstand it (3.4), and for the last three theorems about the
download manager also that the client is not up at the start (`net = "down"`, as in the
specification `OfflineSpec` of the run), and that the list is empty then or the settings stay
as they are (`Undisturbed`, `Untroubled`). Nothing else is assumed.

| Module | Theorem | Statement | Hypothesis: not in `Events` |
|---|---|---|---|
| `DownloadManager_proofs` | `TypeCorrect` | `Spec => []TypeOK` | |
| | `HeldDownloadsStandStill` | `Spec => []HeldMovesNoData` | |
| | `QueueOnDisk` | `Spec => []ListIsDurable` | |
| | `TorrentsOfInstalledClient` | `Spec => []EnginesBelongToClient` | |
| | `HeldDownloadsSendOnlyComplete` | `Spec => []HeldUploadsOnlyComplete`, of *GatesFollowRules* | |
| | `StartsAreQueued` | `Spec => StartsFollowQueue` | |
| | `NoSlotStaysIdle` | `Spec => []NoIdleSlot` | `network`, `stopAndWait` |
| | `GatesOfListFollowRules` | `Spec /\ net = "down" => []GatesFollowRules` | `Undisturbed`: `addTask`, `network`, `crash`, `close`, `noMetainfo`, `writeError`; and `persistFails` |
| | `StatusOfListIsKept` | `Spec /\ net = "down" => StatusIsKept` | `Undisturbed` |
| | `NothingIsForgotten` | `Spec /\ net = "down" => []NothingForgotten` | `Untroubled`: `addTask`, `crash`, `close`, `noMetainfo`, `writeError`, `verifyFails`, `stopSeeding` |
| `DownloadData_proofs` | `TorrentIsOwn` | `Spec => []Consistent` | |
| | `LeftoversAreListed` | `Spec => []Tracked` | `dropsOthers` |
| | `LeftoverRemovalIsSafe` | `Spec => LeftoverIsNobodys` | `startIntoClaim` |
| `GameUpdate_proofs` | `UpdatesAreRecoverable` | `Spec => []Recoverable` | `lateSweep` (`Races`) |
| | `OffersAreWhole` | `Spec => []Consistent` | `lateSweep` |
| | `UpdateStepsAreSafe` | `Spec => StepsAreSafe` | `lateSweep` |
| | `UpdatesAreAtomic` | `Spec => AtomicSpec` | `lateSweep` |
| `SelfUpdate_proofs` | `LauncherStarts` | `Spec => []Consistent` | `Calm`: `exeLost`, `crashParked`, `undoFails`, `settleFails`, `startsTwice` |
| | `StateFilesAreLatest` | `Spec => []DataIsLatest` | `Calm` |
| | `RollbackIsKept` | `Spec => KeepsRollback` | `Calm` |
| `SaveBackups_proofs` | `RestoresAreSound` | `Spec => []Consistent` | `noHook` |
| | `SavesAreInPlace` | `Spec => []RunsOnItsSaves` | `noHook` |
| | `RestoresAreAtomic` | `Spec => AtomicSavesSpec` | `noHook`, `quickSession` |
| `CloudSaves_proofs` | `MemoriesAreBehind` | `Spec => []Consistent` | any |
| | `SavesAreNotLost` | `Spec => NeverSilently` | any |
| `Install_proofs` | `InstallInvariant` | `Spec => []IInv` | `Calm`: any but `persistFails` |
| | `InstallsAreConsistent` | `Spec => []Consistent` | `Calm` |
| | `InstalledFilesAreKept` | `Spec => []FilesAreKept` | `Calm` |
| `Relocate_proofs` | `RelocateInvariant` | `Spec => []IInv` | `again` |
| | `MovesAreConsistent` | `Spec => []Consistent` | `again` |
| | `NoFilesAreLost` | `Spec => []NothingLost` | `again` |
| | `MoveStepsAreSafe` | `Spec => StepsAreSafe` | `again` |

`Undisturbed` also says that every stored list is empty, `Untroubled` that `Configs` has one value.

Each module has one inductive invariant (the download manager one per theorem), made of named
parts, which TLC checked as an invariant on an instance of section 3 before it was proved. The
layout is the same everywhere: lemmas on the operators first, then one lemma per action and part
of the invariant it can disturb, then `Next`, then the theorems.

### 4.1 Download manager

*TypeOK* needs `Bounds` (a switch has two generations left; closing leaves a restart; awaited
jobs exist) and `PassRequests` (a pass only restores).

*HeldMovesNoData* is not inductive: `syncPlayLocked` closes only gates of
downloads that are in the list and have a torrent, so an open gate of any other would
stay open when a game starts. `HeldInv` (`HeldClosed`) adds that an open gate always
belongs to a listed download with a torrent. `ScheduleKeepsClosed` and
`SyncPlayCloses` (in the first part of the module) say what the two rules do to it;
`ClosedStays` covers every handler that opens no gate; what is left are the handlers
that do open one: `ForceStart`, `Finish`, `VerifyPasses`, `ApplySettings`.

*EnginesBelongToClient* is not inductive either: a job puts a torrent back at its end, for the client
it was made for. `ClientInv` adds that everything under way (goroutines, jobs and the
requests of passes) is `Current`: its generation is not ahead of the manager's and,
if it is the same, the client is installed. Teardown and bring-up both count the
generation up, so that nothing under way is of the new one.

*StartsFollowQueue* and *NoIdleSlot* rest on what `schedule()` chooses: as many of those that
may start as there are free slots, and always those further up. `Once` (no download is
twice in the list) makes a place in the list a download. How many it chooses is shown by
counting a set of places by rank, with the induction that the library states for well-founded
sets taken as "a set of places has a least one". *NoIdleSlot* then says that every
handler which frees a slot or makes a download startable also schedules. One does not:
`settleRestored` gives a finished download its torrent back (`FinishSeed`). `SettleInv` shows
that this download is never one that waits in the queue, which is where the two hypotheses come in:
a teardown parks downloads as queued in the middle of that, and `StopAndWait` frees a slot
without scheduling.

*HeldUploadsOnlyComplete* has no hypothesis. The only gate that stays open on a download that is
held is the one `completeLocked` opens. `UploadInv` adds that a completion check is only made
for a download that has its data (`CheckInv`); nobody takes the data of a listed download
away, and one that was removed has failed and is not added again (`DataKept`).

*GatesFollowRules* and *StatusIsKept* rest on `SteadyInv`: while the client stays up and nothing
is restored, a download is as its status says (`Sound`: all but the finished ones have their
torrent, a gate is open only as the status allows), the jobs are completion checks and reseeds, one
for a download (`WorkInv`), a check is of a download that shows it, a reseed of a finished one
without a torrent, so that the two never meet (`Steady`), and what the user paused is
paused. `Outside` says the same of work that is still under way for a download the user
has removed: it failed, and is not what he adds next. A write of the list that fails
breaks only the gates (`ForceStart` leaves them as they are), so *StatusIsKept* allows it.

*NothingForgotten* is about what goes on while the client changes. `PlanInv` says of every listed
download that it is in hand (`Minded`): a check that is shown has a job, or a goroutine made for the
present client, unless a teardown is about to park it; what waits for a torrent is in the pass
of the present client or in a job; and while there is no client it is in `m.resume`, which
the next bring-up reads. Jobs made for an earlier client may still run, and the proof goes by how
each of them ends: a restore that finds its client gone changes nothing, since the teardown
has noted the download or the present pass has it; a completion check ends by itself, and a teardown
waits for it (`awaited`). The rules only start what is queued (`Follows`) and so take nothing out
of hand. Before the proof TLC checked `PlanInv` on one download with three generations, exhaustively,
and with five generations to a depth of 21.

### 4.2 DownloadData

The reservation of the info hash looks like what keeps two downloads apart, and it is not: a job that
ends gives the reservation back a second time, when it may be somebody else's. What
does keep them apart is that the client refuses a torrent it already has, and that whoever has it
drops it. `HoldInv` says that at most one of the pending torrent, the calls, the jobs, the teardowns
and the downloads in `m.engines` has the torrent; `PlaceInv` that it lies in the folder of the
one that has it. `LeftInv` says that the stored list is the list in memory and that nobody is about
to take the entry of a folder that still holds something. `ClaimInv` is what
*LeftoverIsNobodys* adds.

### 4.3 GameUpdate

`StepInv`, `GoalInv` and `FilesInv` say for every step of a job which journal there is, which versions
it goes by, and what is in the directories it has touched; `RecoverInv` says what the next
start makes of them. A step that changes a directory keeps `RecoverInv` because the journal
says which of two directories is the installation; a step that changes the journal keeps it because
`ClearInv` says that the library is right by then. For the refinement of
`AtomicUpdate` the steps fall into a few groups: nothing shows of what a job does in other
directories or under a journal of a swap, an update in place or a rollback (`ElsewhereSteps`,
`UnderJournalSteps`); an update shows when its journal is gone or only waits for a cleanup
(`ClearSteps`), a rollback as soon as it is journalled (`RollbackSteps`), and what gives up the
version to go back to is a step of its own (`ForgettingSteps`).

### 4.4 SelfUpdate

The state files and the program are replaced one after the other. `Original` is what a state file
was before a rollback that has not replaced the program: what was put away, if it was. `DataInv`
says that these are at every step what the program can read, and what was written last; the rename
of the program and the start of an undo are the only steps that change which of the two counts,
and `RollInv` says that everything has been put away, or that nothing was replaced, by then.
`SnapInv` and `StageInv` say where the snapshot is while one takes the place of the other.

### 4.5 SaveBackups

`JournalInv`: the journal and the three folders say how far a restore got, so that `resolve` never
meets a state it refuses. `OpInv` and `GameInv` tie that to what holds the lock and to the game,
which launches only past a journal. `CopiesInv`: the copy that is put back is still there. Its
interesting step is the safety copy a restore takes first, which may make the rotation drop one:
`CaptureKeeps` shows that the rotation keeps both the new copy, which is the newest, and the one
to be put back, which is protected, for any limit. The rotation is stated by ranks (`Newer`, `Stays`:
how many newer automatic copies there are), which is what the loop over the sorted list
computes, and counted by an injection. `SafeInv` adds, for the refinement of `AtomicSaves`, that
what is moved aside is among the copies.

### 4.6 CloudSaves

What a device remembers of an account (`Behind`) is contained in its own folder and in the
cloud's copy, or was given up; that is all `decide` compares with. `UploadInv` and `DownloadInv` carry
it through the steps of a job: what is sent with `If-Match` contains what it replaces, what is put in
place contains the folder, unless the player chose. For any number of devices, an upload of one
leaves the memories of all others behind, since the copy only grows but for what is given up.

### 4.7 Install

Neither property is inductive: that the files of a game are whole in the folder depends on what
every job before was doing there and in `.partial`. `IInv` follows an installation through its
two halves. Until its files are in the folder (`EarlyInv`) it has its source, the folder is
free, nobody cleans up, and its step says what is in `.partial`; from then on (`LateInv`)
`.partial` is empty and the folder holds its files, whole. `AloneInv` says that there is only one
such installation and that nothing holds the folder meanwhile; *OneAtATime* is part of it.
`CleanInv` and `StartInv` say that what removes the folder, a cleanup or a start that reclaims a
leftover, removes files whose source is there. `StoredInv` is about writes that fail:
the record in memory then says "failed" and the stored one still something else, and a crash
brings that back; so the folder must fit it. After a crash `.partial` may hold something
that no job works on; `PartialInv` says that this is what the present start is about to sweep
(`Restarted`), or the only copy of a move an earlier version began (`MovedPartial`), with
which nothing else can be under way (`MoveOnly`).

There is a lemma for each kind of step of a job (`EarlyStep`, `PlaceStep`, `LateStep`, `FailKeeps`)
and one for each action, `Crash` last. TLC checked `IInv` for two installations of every
kind and two crashes, and three installations as far as it came in five minutes. That is where the
second case of `staleOwner` and `crashSweeping` (3.4) were found, which two installations and
one crash, the instance of the run, do not show. Not covered, since the model does not have it: a
crash while `.partial` is the only copy of a source; the model begins in the states
it leaves (`InitMoved`).

### 4.8 Relocate

Which of two folders is the game follows from three things that are written one after the other:
the journal, the folders and the library. `IInv` ties them together for each job that is alive,
that is, active or failed in a way the next start resumes. `JobFits` says which jobs there can be at
which step of their goroutine or of the recovery, and that one which is at the game has
reserved it (`LockFits`): that is what keeps a play, the only thing that makes a copy newer, out
of the middle. `Copies` says for each phase what is at the source, at the target and in the
staging folder: until the commit the source is the newest; from the repoint on the library names
one of the two, and that one is; `StepFacts` adds what the step just done has seen. The phase of a
failed job is the one it failed at, so that a crash, a failure and a later start keep it.
A job that failed at its repoint gives the game back, and it is played: the target may then be
older than the source (`M < latest`), and the retry must find that out, which is why the
manifest is part of the invariant. `Rest` says what the library has when nobody moves the game.

For a move of the library, `LibraryFor` orders the tree of the downloads, their records and
the setting, and `TreeInv` says that the records point at a whole tree or that a move was
interrupted (`Halfway`), with a root where the tree is whole. `OneOnGame`
and `OneOnLibrary` say that there is one move of each kind, which is what `again` gives up.

There is a lemma for each action. Those of a step of the game go through `GameStep`, those of an
item of the library through `LibraryItemStep`: what a job changes in its own record and folders
leaves the other parts alone. Two points came out of the proof: records at a root other than the one that
is moved must stay where they are (`Rebase`), and with three roots a half-removed tree
is a state that a move may not begin over (`Mends`, 3.4); two roots, the instance of the run, show
neither. *MovesEnd* is not proved.

### 4.9 What is only model-checked, and why

- Liveness and everything about fairness (*WorkEnds*, *ReservationsEnd*, *MovesEnd*, *Settles*,
  *Converges* and their like): `ENABLED` and fairness are beyond the prover.
- Nothing more about *GatesFollowRules*, *StatusIsKept* and *NothingForgotten* of `DownloadManager`: the
  hypotheses of their theorems allow all that their runs do, and where they do not hold TLC
  finds the property violated (3.4).
- *Consistent* and *RestoredOnPurpose* of `AccountSync`: not proved yet. Its play time is a sum
  over the counters of the server, and sums over sets are folds, about which the
  library proves nothing without induction over an operator.

Where a proof would need induction over data, it uses the least or the greatest element of a
finite set, or an injection between two sets, instead.

## 5. Plan

What there is to prove next: `AccountSync`, *Consistent*, by what each pass adds to one counter
rather than by the sum.

## 6. Not modelled

Of the parts that are modelled: `FetchMetadata` and pending torrents beyond their
reservation, the choice of a network route, the bytes of pieces and files; which update is
offered and the plan of changed files; external installers and archive formats; downloading
and verifying a release, and the beta channel; where a game keeps its saves, archives and
quotas; `ForgetRemote` of the account sync (what it does to other devices is decided by the
server), chunks and features of the server, and the outbox of the achievements. Settings are
what the manager sees of them: versions, appliers and their undo are not modelled.

Not modelled at all: parts with little state of their own, pure input and output, or
behaviour that lies in the operating system or on a server whose code is not here. Title
matching and search are pure text algorithms over long strings; catalog, sources and metadata
retrieve and cache; Wine, install guard and redistributables call the system; messaging,
social and reviews show what a server decides; LAN transfer, desktop integration, themes,
statistics and diagnostics have little state that a step of another can invalidate. They are
also where most of the lines are, which is why the share of the source that the modules
translate stays far below the share of its hard behaviour that they cover. `PROJECT.json` lists
each part with its reason.

## 7. Running it

```
tlc -workers 2 -config MCQueueRules.cfg MCDownloadQueue.tla
tlc -workers 2 -config MCRestarts.cfg MCDownloadNetwork.tla
tlc -workers 2 -config MCGameUpdate.cfg MCGameUpdate.tla
tlapm DownloadManager_proofs.tla
tlapm DownloadData_proofs.tla
tlapm GameUpdate_proofs.tla
tlapm SelfUpdate_proofs.tla
tlapm SaveBackups_proofs.tla
tlapm CloudSaves_proofs.tla
tlapm Install_proofs.tla
tlapm Relocate_proofs.tla
```

Every run ends within about four minutes on two cores; so does every module of proofs, from
nothing, but for that of the download manager, which takes up to twelve.

# Formal models of the deployment server

This directory holds TLA+ models of the server under `src/internal/server`, the TLC
configurations that check them on small instances, and proofs that the TLA+ proof system
checks for every value of the constants. The models are translated from the Go code; where
the documentation promises something the code does not do, a configuration shows the disagreement.

File paths below are relative to `src/internal/server/` unless they start with `src/` or `docs/`.

## 1. The system and its components

The program is one HTTP server that deploys applications: an upload is unpacked, started as an
OS process (or served as a static site, or run as a Docker container), watched, restarted,
suspended when idle, expired by a TTL, and remembered across restarts of the server.

| Component | State | Operations | Hard behaviours | What makes it correct |
|---|---|---|---|---|
| **Process runtime** `runtime/multimanager.go`, `runtime/runtime.go`, `runtime/proctree_unix.go` | per app: a lock, a registered `Manager` (running, cmd, restarts, the channels of its goroutine) | StartApp, StopApp, RestartApp, RemoveApp, RestoreApp, the goroutines `monitor` and `waitProcess`, StopAll | a stop racing an automatic restart; locks dropped between the parts of a handler; a failing kill; events sent after the lock is released | one live process per app; a live process can always be stopped; restarts are bounded; a stop returns; a manual stop is final |
| **Application records and events** `state/sync.go`, `handler/handler.go` | `SyncManager.state`: a record per app | OnAppEvent, updateAppState, ReplaceApp, UpdateLogPath, ReplaceState | events arrive in another order than the facts they report; whole-record writes over newer fields | the record agrees with the process once nothing is under way |
| **State file** `state/persist.go`, `safeio` | the state file, its backups, the `.lock` file | Persist, Load, restoreFromBackup, the batching loop, Close | crash between any two writes, damage from outside, two savers | one whole version in the file; no older version comes back; every change is saved |
| **Boot and shutdown** `src/cmd/server/main.go`, `handler/lifecycle.go`, `state/restore.go` | phase of the server | RestoreState, Shutdown | a crash during either; requests still running during shutdown | what was running is running again or recorded as lost |
| **HTTP handlers for processes** `handler/handler.go` | none of their own | Start, Deploy, Stop, Restart, RemoveApp, uploads, status, logs | each is several locked sections, not one | see runtime and records |
| **TTL scheduler** `ttl/scheduler.go` | heap, active entry per key, wake-up channel | Schedule, Cancel, Close, the goroutine | the callback runs without the mutex; heap changed while the goroutine sleeps | a callback is due, current and never repeated; no deadline is slept through |
| **Declarative process apps** `handler/apply.go`, `handler/process_apply.go` | generation per record | Apply, expireApp, and Stop/Start/Restart of such apps | an expiry in flight while the app is applied again; whole-record replacement from an old copy | an expiry ends only the generation it was set for |
| **Idle tracker** `idle/tracker.go` | list of entries, one per app, wake-up channel | Schedule, Touch, Cancel, the goroutine | as the TTL scheduler, with deadlines that move in place | an app in use is not suspended, an idle one is |
| **Static sites, suspend and resume** `handler/phase3.go`, `handler/apply.go`, `proxy/proxy.go`, `staticserve/site.go` | sites, idle apps, proxy targets, status in the record | Apply, Stop, RemoveApp, expireApp, suspendIdleApp, resumeSuspendedApp, touchIdleApp, publishSite, boot | suspend racing a request, a stop or a resume; files removed while a site is opened on them | a suspended site comes back on the first request, exactly once; no listener is lost |
| **Docker backend** `handler/docker_apply.go`, `dockerbackend/` | container per app | applyDocker, stopDockerApp, pause, boot, shutdown | any engine command failing; the work directory moved before the container exists | no container without a record; a failed apply leaves what was there |
| **Archive extraction** `archive/archive.go` | counters of one extraction | ExtractWithLimits | sizes of the headers against the real sizes | limits hold whatever the headers say |
| **Application logs** `runtime/logger.go` | open file, size, rotation | Start, WriteLog, checkAndRotate, cleanupOldFiles, Stop | rotation racing writers; retention | lines are lost from the oldest on; files are bounded; what is shown has no gap |
| **Process identity** `runtime/identity_*.go` | none | compare a saved PID with `/proc` | a PID reused after a reboot | a foreign process is never killed |
| Secrets, authentication, configuration, Kubernetes import, API types, command-line client, Windows process tree | none shared | translations and checks | none that a model checker reaches | left out, section 8 |

How they interact. A handler calls `MultiManager`, which takes the per-app lock and calls
`Manager`. `Manager` sends events through `notify` after it has released its own mutex; the
handler's `OnAppEvent` hands them to `SyncManager`, which changes the record in memory and
queues a signal for the batching loop, which copies the state and calls `StateStore.Persist`.
The goroutine that watches a process sends events the same way. The TTL scheduler and the idle
tracker each own a goroutine that calls back into the handler (`expireApp`, `suspendIdleApp`).
The proxy calls `touchIdleApp` on each request and `resumeSuspendedApp` on one for a suspended app. `main` loads the state,
replays it, restores each app, serves, and on a signal closes all of it in turn.

The hazards, each at its line, are listed in `PROJECT.json`.

## 2. Plan

| # | Module | Models | State |
|---|---|---|---|
| 1 | `ProcessLifecycle` (+ `_inv`, `_proofs`) | one app as a process: handlers, MultiManager, Manager, watcher, events, record | done, proved |
| 2 | `StatePersistence` refining `DurableState` (+ `_proofs`) | memory, channel, batching, Persist, Load, boot, shutdown | done, proved |
| 3 | `TtlScheduler` refining `Deadlines` (+ `_proofs`) | the scheduler and its goroutine | done, proved |
| 4 | `DeclarativeApp` (+ `_proofs`) | apply, expireApp with generations, Stop/Start/Restart and whole-record replacement | done, proved |
| 5 | `IdleTracker` refining `Deadlines` (+ `_proofs`) | the tracker and its goroutine, with deadlines that traffic moves | done, proved |
| 6 | `StaticSite` (+ `_proofs`) | apply, stop, remove, expiry, suspend, resume, proxy and boot of one static site | done, proved |
| 7 | `BootRestore` (+ `_proofs`) | what becomes of the process apps over a crash, a shutdown and a boot | done, proved |
| 8 | `DockerApp` (+ `_proofs`) | apply, stop, remove, expiry, suspend, boot and shutdown of one container app, with failing commands | done, proved |
| 9 | `LogFiles` | the loggers of the process apps, rotation, retention, restoring | done, model-checked |

`TtlScheduler` and `IdleTracker` are both shown to implement `Deadlines`, and `DeclarativeApp`,
`StaticSite` and `DockerApp` use the two schedulers by that promise. `BootRestore` uses the
state file by the promise of `DurableState` and starts and stops apps in the whole steps that
`ProcessLifecycle` and `DeclarativeApp` take apart.

A module for the limits of an archive extraction was considered and dropped: the extraction is one
sequential loop over one archive with counters of its own (section 8).

Proofs still wanted: the invariants of `LogFiles`.

## 3. The modules and the code

Handlers, goroutines and timers are interleaved step by step. A step is one section under a
mutex, or one call that cannot be cut short; where the code drops a lock and takes it again,
the model has two steps. Calls that are refused and change nothing have no action. Variables
marked "history" are read by properties only.

### ProcessLifecycle

One app, as the requests, its `Manager` objects and its processes see it.

| Variables | Code |
|---|---|
| `lock`, `registry`, `made` | `MultiManager.appLocks[app]`, `managers[app]`, the Manager objects created |
| `running`, `cmd`, `restarts`, `auto`, `recovered` | the fields of `Manager` |
| `watch`, `watchCmd`, `event` | the goroutine (`monitor` or `waitProcess`), the command it was given, the event it is about to send |
| `pc`, `op`, `target`, `carried` | where a request is, what it does, the Manager it works on, the PID it read |
| `proc`, `record` | the OS processes; the app's record in `SyncManager.state` |
| `leaked`, `orphaned`, `overtaken` (history) | a kill that failed; a Manager that RemoveApp dropped while it ran; an event applied after a newer fact |

Actions follow the locked sections: `CheckNotRunning`, `RegisterApp`, `StartApp`,
`NotifyStart`, `InsertManager` are Start and Deploy; `Stop`, `StopKillFails`, `Join`, `NotifyStop`
are Stop; `Relaunch`, `ReadPid`, `NotifyRestart` the rest of Restart; `RemoveStopped`,
`RemoveApp`, `Deregister` the rest of RemoveApp; `WatchRead` to `MonitorRestartFails` the
goroutine; `ProcExits`, `KillTakesEffect` the operating system. The initial states are a
server with no app and one whose boot handed over a process of the previous server,
identified or not, with any restart count in `OldRestarts`. Events are applied to the record
by `ApplyEvent`, a translation of `updateAppState`.

`ProcessLifecycle_inv` holds the inductive invariant, `ProcessLifecycle_proofs` the theorems.

### StatePersistence and DurableState

The state is a version number, since only its age matters; an event makes a new version. `mem`,
`queue`, `timer` are SyncManager's copy, channel and batch timer. `pc` and `copy` say where each
thread (a request or timer calling ManualPersist, the batching loop, main) is in a save.
`main`, `backup`, `lockFile` are the files: whole, torn by an unfinished write, altered (parses,
wrong checksum) or garbled (does not parse). Persist is the steps `CopyState`, `AcquireLock`,
`TruncateBackup`, `WriteBackup`, `RenameFile` or `SaveFails`, `ReleaseLock`; boot is
`BootFresh`, `BootLoads`, `BootRepairs`, `RepairFile`, `BootFails`, `ReplaceState`,
`RestoreSaves`, `StartServing`; shutdown is `ShutdownSaves`, `Close`, `LoopCloses`, `Exit`.
`Crash` may come between any two steps. Where writes may fail (`IOMayFail`), so may the removal of
the lock file, which the code only logs. `interrupted` (history) says that a server ended inside a
save, or could not remove the lock file. The temporary file is left out, because a reader sees only
its rename. The backup is written in two steps, because `backupLocked` truncates a file named after
the second, which a second save within that second does again.

`DurableState` is the promise: one whole version in the file, found again by a
reboot, never replaced by one from before the boot. `DurableSpec` is `StatePersistence` seen as
that specification: memory and base are gone unless the server is serving.

### TtlScheduler and Deadlines

`queue`, `active`, `changed`, `done` are the fields of `ttl.Scheduler`; `runner`, `item`, `timer`
are its goroutine: scanning, resting with an empty heap, sleeping until `timer`, or inside
the callback for `item`. `Schedule` and `Cancel` are the sections under the mutex and `Signal`
the non-blocking send after it. The goroutine drops one stale entry a step, which has more
interleavings than the code. An entry object stands for its generation. `Deadlines` is the
promise: a deadline per key; a callback takes a due deadline with it and runs alone.

### DeclarativeApp

applyProcess, Start, Stop, Restart, RemoveApp of one app with a desired configuration, and
expireApp. What the module adds to ProcessLifecycle is the record's generation and
configuration, the whole-record writes (`ReplaceApp`) from a copy read earlier, the TTL
deadline and the work directory. The runtime under it is cut down to what ProcessLifecycle
shows of it:

* the lock per app, the registry (`managed`), one process at most (`proc`);
* StartApp and StopApp under the lock, their events sent before it is released, and in a start
  before the new Manager is in the registry (`Announce`, then `Insert`);
* the event of an exit applied later (`late`);
* no automatic restart, no failing kill: ProcessLifecycle has both.

The scheduler is cut down to `Deadlines` without a clock: an armed deadline may be due at
any time. This only adds behaviours, except that it does not tell a short TTL from a long one; the
`early` flag marks the one place where that matters. Two reads of the server's state are two steps, and so are a
read and the write that depends on it: Restart has `Announce`, `Reannounce` (its two events), `RestartReads`
(GetState), `RestartAsks` (GetAppInfo), `RestartArms` and `RestartRecords`, and the correction at the end of an
apply `ApplySettles` and `ApplyCorrects`. What only an apply's own directories see is joined: each pair of renames that
moves or drops a directory is one step, the backup is dropped in the step that calls GetAppInfo, and the second Cancel of
a handler that cancels twice is not repeated. Staging, unpacking and validation of the artifact touch
nothing shared until `PreservePrevious`.

History: `started`, `life`, `program`, `dir` say what each process is; `lease` which had a
deadline set; `lost` that a write replaced a newer fact by an older one, or wrote a PID that was no longer, or
not yet, the app's; `crossed` that expireApp
decided while a started process did not have its generation yet, or that a restart whose process
had already ended wrote its generation over the process of another operation; `early` that a
deadline was due before the record had the generation it compares.

### IdleTracker

`queue`, `active`, `changed`, `done` are the fields of `idle.Tracker`, `entry` the entry objects
they point to, `runner` and `item` the goroutine. Touch is two actions. `TouchLive` moves the
deadline in place. `TouchOther`, with no entry of the generation, drops the mutex, and
`TouchSchedules` takes it again in Schedule, however late. `Cancel` takes the entry out, and
`Take` begins a suspension: from there on a touch comes too late. The goroutine sleeps a poll
interval at most, so its timer may fire at any time. The same `Deadlines` is the promise: a
suspension takes the deadline its app has, and only when it is due.

### StaticSite

One app as a static site.

| Variables | Code |
|---|---|
| `record` | the app's record in `SyncManager.state` |
| `sites`, `idleApp`, `resuming` | `Handler.sites[app]`, `idleApps[app]`, `resuming[app]` |
| `proxyUp`, `targets` | the proxy, started on first use, and its targets by token |
| `idleArmed`, `ttlArmed` | the generation each scheduler has a deadline for |
| `open`, `rootOf`, `files` | listeners, the directory each serves, the directories that exist |
| `pc`, `op`, `gen`, `site`, `copy`, `doc` | where a handler, a callback or a request is, and its local variables |
| `genOf`, `withdrawn` (history) | the generation recorded for a directory; the app was told to stop since its suspension |

`Apply` to `TokenWrites` are the steps of an apply and its publication; `Stop`, `Remove` and
`TtlFires` share `Withdraw` to `Deregister`; `IdleFires` to `SuspendFlags` are suspendIdleApp;
`Visit` to `Touch` are a request through the proxy, resumption included; `BootServes` to
`BootSkips` are restoreStaticSites. Any thread may pause between two steps. A port is the site
that listens on it; bytes and unpacking are left out.

No lock is held across these steps, and where everything overlaps, several promises of the
documentation fail (section 7). `overlap`, chosen at the start, says which threads may be inside
a call together; the others run alone. The run has visitors together, visitors with
the idle callback, and the two callbacks together; each property names the overlaps it is about.

### DockerApp

One app in a Docker sandbox. `dockerApp`, `idleApp` are the handler's maps, `docker` and
`label` what the daemon says of each container, `appDir` and `backup` the artifact and its
`.previous`, `held` and the other local variables what a call has in hand. Each command to
Docker may fail, and the code goes on as it does after the failure: `CreateFails`, `StartFails`,
`Drops`, `RollsForward`, `RollsBack` on an apply; `NotRemoved` wherever a removal is refused.
Containers exit by themselves. `Crash` and `Shutdown` end the server, `BootStarts` to `BootSkips`
are restoreDockerApps. `orphaned` (history) has the containers Docker did not remove or start as
told and those an apply found suspended. Which container Docker makes is left open: it is one
that neither exists nor is named anywhere (`NewContainer`). `overlap` is as in StaticSite: nothing or the two
callbacks. No Docker app is ever registered with the proxy, so no request touches or resumes one, and
the resumption of a container is left out.

### BootRestore

Several process apps over boots. `proc`, `births`, `now` are the operating system: who has a
PID, how many processes were born, the clock. `file` is the state file, `mem` the memory copy,
`loaded` the copy the boot loops over, `todo` the apps its loop has not come to, `manager` the
managers with their PID, authority to kill and watcher, `armed` the deadlines. `Load`, the
`Restore...` actions and `ReplaceState` are `state/restore.go`; `Cleanup` is main's call
between; `ReviveKeeps` to `ReviveFails` are RestoreState. `Shutdown`, `StopAll`, `ShutDown` are
the way out and `Crash` may come at any step of it, of a boot or of serving. A PID may be
reused after its process is gone (`PidIsReused`) and by a reboot of the host (`HostRestarts`).
A kill may fail wherever the server kills a process it has authority over. The Manager has then stopped
running it (`StopFails`): a Stop reports the error and leaves the record running, an expiry
records cleanup_failure (`CleanupFails`), a boot records expired all the same (`ReviveExpires`), and
StopAll goes on. `Apply` sets a deadline, or none if the document has no TTL; `Start`, which
is Start and Deploy, keeps the record's deadline and arms nothing.

While the server serves, an operation is one step: a callback or an exit in the middle of one is
DeclarativeApp's and ProcessLifecycle's subject. Left out are Deploy of a running app, requests that
fail to start anything, RemoveApp and the explicit Restart. History: `recorded`, the processes the
file has had; `spared`, those a stop was not allowed to kill or failed to; `stuck`, the apps whose record goes on saying
running since a stop failed; `plain`, the apps last started by Start or Deploy.

Three flags widen the model past the run. `SlowReplay`: the replay takes longer than a
batch interval, so a half replayed state may be saved. `LateRequests`: a request still runs when
StopAll begins, since `http.Server.Shutdown` waits ten seconds only. `PidsComeRound`: a PID comes
round while the server still remembers it; the code does not defend against that.

### LogFiles

The directory is `disk`: the paths, the contents, the age of each file. `log` is the Logger of
each app (file, path, lines in memory, counters), `capture` what CaptureOutput does with the line it
has, `known` the `LogPath` of the record. `Start`, `WriteLog` with its rotation and `Stop` are one
step each, under the Logger's mutex; a line is scanned and logged in two steps, so it may be
logged after the Stop. Rotation is `SetAside`, `Reopened`, `Cleaned`, each of whose file operations
may fail if `Failure` says so: the rename, after which the file keeps its name, and is emptied if the new one
gets the same; the creation of the new file and of the temporary one in its stead; each removal. A size
is a number of lines. `Begins` says which names are prefixes
of others, since retention goes by the prefix. `Failure` and `Quota`, the number of lines, depend on the naming.
History: `logged`; `saved`, the lines that were written to a file, without those of a file that was emptied so.

## 4. The runs

`tlc -workers 2 -config <cfg> <module>` runs one.

| Run | Bounds | Checks and shows |
|---|---|---|
| `lifecycle_safety` | 2 callers, 2 managers, 2 processes, MaxRestarts 1, saved counts 0 and 5, failing kills, symmetric | `IInv` (inductive invariant of the proofs, with the bound on restarts), `OneLiveProcess`, `LiveProcessIsReachable`, `RecordIsTruthful`, `ManualStopSticks` |
| `lifecycle_liveness` | 2 callers, 1 manager, 2 processes, unlimited restarts, failing kills, fair | `StopReturns`: a stop that waits for the watcher returns; `DeadPidIsForgotten` |
| `persistence_crash` | 3 saving threads, failing writes, failing removals of the lock file, 2 crashes, 2 versions | `MainIsNeverTorn`, `LockFileIsReleased`, and the refinement `DurableSpec` |
| `persistence_batch` | channel of 1 place, no crash, one damage from outside, saves in one second, fair | `DroppedEventIsSaved`, `CloseSavesEverything`, `OneDamageIsSurvived`, `EventuallySaved` |
| `ttl_scheduler` | 2 callers, 2 keys, 2 entries, times 0..2, fair | `IInv`, the refinement `PromiseSpec`, `DueIsCalled` |
| `decl_safety` | 2 callers, a leased or an unleased configuration, 2 processes with the one and 3 with the other, every operation but remove, symmetric | `RecordIsTruthful`, `ExpiryEndsItsOwn` |
| `decl_liveness` | 1 caller, a leased and an unleased configuration, every operation, 2 processes, fair | `LeaseEnds`: a process with a deadline ends |
| `idle_tracker` | 2 callers, 2 apps, 2 generations, windows 0 and 1, 4 entries, times 0..2, fair | `IInv`, the refinement `PromiseSpec`, `IdleIsSuspended` |
| `static_site` | 1 administrator, 2 visitors, both callbacks, 2 documents, 5 sites, 3 directories, 2 generations, reboots | `ServedSiteIsWhole`, `RecordIsTruthful`, `NoListenerLeaks`, `SuspendedIsResumable`, `CallbackEndsItsOwn` |
| `docker_app` | 1 administrator, both callbacks, 2 documents, 3 containers, 2 generations, failing commands, crashes and shutdowns between calls | `NoStrayContainer`, `AgreesOnWhatRuns`, `LeaseIsKept`, `CallbackEndsItsOwn` |
| `boot_restore` | 2 apps (one restarted automatically, one without an identity), 2 PIDs, 2 births, times 0..2, failing kills, a crash at any step | `AuthorityIsEarned`, `NoProcessIsLeftBehind`, `ShutdownStopsAll`, `LeaseIsKept`, `FinalIsFinal` |
| `log_files` | one app with 7 lines, any file operation failing; or two with 3 and 1 lines, one's name a prefix of the other's or not, renames (and creations, removals) failing; 2 lines in memory, files of 1 line and one more, 2 files kept, size looked at every 2 writes, 2 seconds | `OldestGoFirst`, `FileIsBounded`, `ShownIsConsecutive` |

`TypeOK` is a conjunct of `IInv` or of one invariant of the other modules.

Every property of a run has a mutant in `PROJECT.json`: a definition of the model
changed as a plausible bug would change the code, under which the same run finds the
property violated. Where the change is more than an operator already in the module, it stands
just before the right definition under the comment "Fault"; no specification uses it.

Runs switch off the deadlock check where the bounds stop the model (no version, line, process or generation is
left) or where the system really rests (an exited goroutine, a server that is off).

**Why the bounds are enough to be interesting.** Two callers are the least at which handlers
interleave, and two processes the least at which the app could run twice or a late event
could meet a newer process; a second Manager is what StartApp makes when the first is
gone. MaxRestarts = 1 is reached and could be passed. With one place the event channel is full
after one event, so events are dropped in most behaviours; the code's 100 places only make
that rarer. Two versions tell an old save from a new one; two crashes allow one during the
reboot after the first. Three time values are past, present and future; two entries can be of one key, one
replacing the other, or of two. Two visitors are the least at which two requests find one
suspended site; two generations the least at which a callback can be stale, and of the five sites
one is served, one replaced, one being opened by each visitor. A third container is needed when a second
apply follows one whose container could not be removed. With two births a process has a
successor, or its PID goes to a stranger or to the other app's process; two ticks of the clock let a TTL run out and another
begin after it.
A file takes two lines before the third causes a rotation, so seven lines are three rotations and
leave four files, of which retention removes two and keeps two, the older of them a rotated one; the wrong order
shows after the second. In the runs with two apps three lines are one rotation, besides those files that restarts
leave, and more than memory holds; the second app's one line and file are enough to be deleted by the first one's retention. The proofs of
section 6 remove these bounds where they exist.

`decl_safety` is checked with two reductions. The constraint `Small` stops a
behaviour at the first lost update (the properties say nothing after one, and `lost` never
becomes false again), keeps to one configuration per behaviour, and starts at most two processes if that has a TTL:
three without, since a restart that finds another caller's start announced but not yet registered takes the process it
stopped, its own and that caller's. The view leaves out what neither a guard nor a property reads, except for its type: what
the directories and processes hold, and the set of leases.

## 5. Fairness

Weak fairness of each goroutine's next step: the Go scheduler runs every runnable goroutine.
Strong fairness where a mutex is taken: `sync.Mutex` in starvation mode hands itself to the
longest waiter, so an acquisition that is possible again and again happens. A timer that is
set fires, a SIGKILL takes effect, time passes, a callback returns, a watcher sends its event.
No fairness is assumed of what nobody has to do: requests, exits, shutdown, crashes, damage. Of the
idle tracker it is the goroutine, the clock and the signal a caller is about to send. `StaticSite`,
`DockerApp`, `BootRestore` and `LogFiles` are checked for safety only.

## 6. What is proved

For every value of the constants that satisfies `ConstantsAssumption` of the module, whatever
the number of callers, managers, processes, keys or entries:

* `ProcessLifecycle_proofs`: `Invariance` (of `IInv`), `TypeCorrect`, `RestartsBounded`,
  `LiveProcessReachable`, `OneLive`, `ManualStop`, `Truthful`.
* `TtlScheduler_proofs`: `Invariance`, `TypeCorrect`, `CallsJustified`, `WakeupNotLost`, and
  `Implements`: the scheduler implements `Deadlines`.
* `IdleTracker_proofs`: `Invariance`, and `Implements`: the tracker implements `Deadlines`.
* `StatePersistence_proofs`: `TypeCorrect`, `LockReleased`; `NeverTorn`, if no file is altered from
  outside (`"altered" \notin Damage`); `NothingDropped` and `CloseLosesNothing`, if writes succeed
  (`~IOMayFail`); `DamageSurvived`, if they do and one alteration is all (`MaxDamages <= 1`); and
  `Implements`: without damage, and with the replay over before a batch is (`~SlowReplay`), saves and
  boots implement `DurableState`.
* `BootRestore_proofs`: `TypeCorrect`, `FinalStaysFinal`, `LeaseIsAlwaysKept`;
  `AuthorityIsAlwaysEarned`, if no PID comes round while a server runs (`~PidsComeRound`);
  `NobodyIsLeftBehind`, if the replay is over before a batch is saved (`~SlowReplay`); and
  `ShutdownAlwaysStopsAll`, if no request outlasts the shutdown either (`~LateRequests`).
* `DeclarativeApp_proofs`: `TypeCorrect`, `Truthful`, `ExpiryIsAlwaysOfItsOwn`, for an app that is not
  removed (`"remove" \notin Op`).
* `StaticSite_proofs`: `Invariance`, `TypeCorrect`, `ServedSiteListens`, `RecordTruthful`, `NoLeak`,
  `CallbackIsCurrent`; `SiteIsWhole` and `Resumable`, if the server ends between handlers only
  (`~CrashAnywhere`).
* `DockerApp_proofs`: `Invariance`, `TypeCorrect`, `LabelIsTrue`, `LeaseKept`, `CallbackIsCurrent`;
  `NoStray` and `RunsAgree`, if the server ends between handlers only (`~CrashAnywhere`).

In the last two modules a property names the overlaps it is about, so its theorem holds for every
`Overlap` and every number of requests, administrators and containers, but says nothing of a behaviour
whose threads overlap more than that. What is left then is in `ServedSiteListens` and `LabelIsTrue`.

Each assumption in parentheses is a parameter of the module that lets the code's weak point
happen. Where it does, the property fails: section 7 has the configurations, and that of a removal
is described there. A reader can tell from the assumption what the property rests on.

**ProcessLifecycle.** `OneLiveProcess` is not inductive: that two processes are not alive follows
only from where a live process can be. The invariant `IInv` says that step by step. The lock has the
caller whose program counter is in `Holding` (`LockInv`); that caller works on the registered manager, or on one not yet
registered while the registry is empty (`TargetInv`); a running manager is registered, about
to be, or orphaned (`RunningInv`); a live process that was not leaked is the `cmd` of a
running manager (`AliveInv`). Two live processes that are no strays then belong to one manager, and a
manager has one `cmd`. `WatchInv` and `JoinInv` say that the goroutine of a manager that Stop
has waited for has nothing left to send; `SilenceInv`, that a record of a manual stop meets no
pending event; these carry `ManualStopSticks`. The lemmas need that the handlers hold the lock
across their parts; with `MayStartUnlocked` in place of the lock's test, TLC breaks
`LiveProcessIsReachable`.

That the record is truthful at rest needs an account of every event that is still to come
(`TruthInv`). An event a watcher has posted fits its manager, or a caller waits in Stop for that watcher
and sends its own event later (`PostedInv`); what the holder of the lock is about to announce fits the
manager it works on, unless that manager's watcher has an event to correct it (`HolderInv`); and while the
lock is free, the record fits the registered manager, unless a watcher's event or a deregister is to
come (`FreeInv`). `overtaken` names the three events that arrive without the lock after something
newer, and every step that does not set it keeps the account. There is one lemma per action for
`CoreInv`, which has the other parts of `IInv`, and one for `TruthInv`.

**TtlScheduler.** The active entry of a key is in the heap and not withdrawn
(`ActiveInv`), nothing in the heap was called (`QueueInv`), the entry in the callback is due and was
current (`ItemInv`), and a sleeping goroutine has a deadline at most as late as every active
one, or a signal on its way (`NoLostWakeup`). The refinement maps the deadline of a key to the
deadline of its active entry and the running callback to the entry's key: Schedule arms,
Cancel disarms, Take expires, Call returns, Tick ticks, and every other step stutters.

**IdleTracker.** The queue holds the active entries and nothing else (`QueueIsActive`). That is
inductive only because Schedule replaces the entry of its app in place, which the lemma
`ArmsWith` shows for Schedule and for the late Schedule of a Touch alike. `NoLostWakeup` says
that a goroutine rests without a poll only if nothing is in the queue or a signal is on its
way, `ItemInv` that the entry in hand is out of the queue. The refinement maps the deadline of an app to
that of its active entry: Schedule and both kinds of Touch arm, Cancel disarms, Take expires,
SuspendReturns returns, Tick ticks, and every other step stutters.

**StatePersistence.** Whoever has the store's mutex has the lock file, nobody has either once the file was left behind,
and nobody else writes a file (`LockInv`, `QuietInv`); so the file under a name is a whole one, except the temporary
file being written and a main file under repair (`FormInv`). A boot repairs only a main file that
is not whole, which without alterations there never is: the rename replaces one whole file by
another. `SavedInv` follows a version from memory to the file: it is there, or in a save under way,
or the batching loop has an event, a pending flag or a closing save to come. `DamageInv`
says that while no damage was done or the one that was is not yet repaired, the backup or the
main file is whole and as new as the last save before (`Spared`, `Chain`), whatever the times
of the saves. For the refinement, `AgeInv` orders the versions: what is being written is not
newer than memory. Memory, the file and the boot map to `DurableState`'s; a rename is its save.

**BootRestore.** What the boot has not come to yet has no manager and no deadline, and its
record is the loaded one (`PhaseRight`); a manager runs a process just when its record says so, unless a stop has failed,
and what is armed is the record's deadline (`RunsRight`). `LeaseInv` adds that the deadline of a running app is armed: a
boot that arms none finds it out of time, which stays so, and Start and Deploy are the only others that arm none. Births are never used twice, so an identity that was taken of
one process is never that of another app's (`IdInv`). A PID that the boot has verified is
remembered by the loaded record, so no new process gets it as long as PIDs do not come round;
that makes authority inductive (`AuthorityInv`). `KeptInv` follows each process of ours
from the file to the loaded records, to memory and to a manager: at every step of every phase
one of them names it. At a shutdown it is stopped there, and what the last save writes says so (`StopInv`). A stop that fails leaves a record that
names a process no manager runs: that process is among the spared ones, in memory and after the shutdown in the file
(`StuckInv`), so what `KeptInv` follows is never one of those.

**DeclarativeApp.** The argument is about copies of the record that are written back. A process is
known by a number that only one caller has (`NumberInv`, `MineInv`), and the apply or restart
that started it is the first to write that number as a life (`FreshInv`, `BornInv`). Until an update is
lost, a copy is not ahead of the record, and one with the record's life is of its generation
(`VersionInv`): that is why generations tell applies and restarts apart. `RunsInv` is the first half of
`Truthful`: what runs is recorded, or about to be announced by the holder of the lock. The
second half is `EndsInv`: when nothing runs, an event that says so is on its way, or the record says so already, but for an
apply that is about to correct the status. For the expiry, the record has reached every deadline except that of a restart which is about to
write it (`DeadlineInv`), and what runs has the life of the record unless it is not yet recorded
(`LifeInv`). When expireApp finds its own generation, no start under way, and the same
generation in the record, the lives agree, and nothing is started before it stops the app
(`StopInv`). The invariant is proved with one lemma per conjunct; lemmas such as `RecordMoves`,
`ProcMoves` and `KnowledgeMoves` sort the steps once by what they do to a variable.

**StaticSite.** No invariant of this component holds in every behaviour except the plainest, so
`IInv` has five levels, each inductive together with those before it. `Base` holds always: what the
local variables of a thread are at each program point (`ApplyInv`, `LocalInv`), that a site in hand is in no
other hand and not in the map and listens (`ListenInv`), that one request at a time resumes (`HeldInv`). Where
requests and an expiry do not overlap (`ExpiryApart`), `ApartInv` adds that a copy of the record is still the record but for
the status (`SameInv`), that a thread acts on the generation of the record (`GenInv`), and that the
directory of the record is of its generation (`RootInv`). Without a crash inside a handler, `FilesInv` says that the
directory of what is served, recorded, resumed or applied exists. Where at most requests and a suspension
overlap, `AloneInv` says that what listens is in the map or in a hand, and that while the record
says suspended the map is empty but for the request that resumes the site (`SuspendInv`). Where only requests overlap,
`VisitsInv` ties the record to the map (`AgreeInv`), and the record, `idleApps` and the target of
the token to one generation (`TokenInv`, `ResumableInv`). The properties alone are not inductive: that the
directory of a suspended site exists, for one, follows from the suspension having found a running one.

**DockerApp.** The same shape. `Base` has the program points, the local variables, and that the
label of a container somebody names is the generation named with it (`LabelInv`). `GenInv`, where at
most the callbacks overlap: what a thread acts on is of the generation of the record, or the next
one in an apply, so what the TTL callback takes is what its deadline was set for. `KnownInv`, without a
crash inside a handler: a container that exists is named, and before a step forgets one, it is gone or Docker
refused to remove it (`Safe`, in `ApplyInv`, `StopInv`, `SuspendInv`). With nothing overlapping, `LeaseInv` follows
the deadline through apply, stop and expiry, and `AgreeInv` the artifact, its backup and the record
through an apply that fails at any of its steps.

In both proofs there is one lemma per level with a step per action, and `StepInv` joins them: `overlap`
never changes, so the condition of a level holds before a step just when it holds after it. A
definition such as `CreatesDo` says of an action what the other steps need, without its EXCEPTs and CHOOSE.

**Only model-checked.** Liveness, which the prover cannot reach. `LogFiles`: the order of
the files by age is a sequence that every write changes with `SelectSeq`, and its type as well as
which file goes first rest on what `SelectSeq` leaves. That takes an induction over the
sequence, which the installed provers cannot do. A declarative app that is removed:
`RecordIsTruthful` also holds with removals (checked with the bounds of `decl_safety` for applies, restarts and
removes, and for every operation with `MaxInst = 2`), `ExpiryEndsItsOwn` does not.

## 7. Where the code and its documentation disagree

Each of these is a property taken from a document or a comment, and a configuration
under which TLC finds a behaviour of the model that breaks it. Their `.cfg` files stand beside the
modules and are run in the same way; they are not among the runs of section 4, which all pass.

| Configuration | Property | What happens |
|---|---|---|
| `ProcessLifecycle_removestops` | `RemoveStopsTheApp` | RemoveApp stops, then unregisters, in two locked sections. An app started in between keeps running with no manager. |
| `StatePersistence_stalelock` | `MemoryReachesDisk` | A crash in Persist leaves the `.lock` file, and so does a removal that fails, which is only logged (`state/persist.go:56-58`). Every later save fails, after every reboot. |
| `DeclarativeApp_ttlrace` | `ExpiryChecksGeneration` | Apply starts the process before it records the new generation. A callback of the old one that runs in between finds its own generation, running, and stops the new process. |
| `DeclarativeApp_quickexit` | `ExitIsRecorded` | A process that exits between applyProcess's GetAppInfo and ReplaceApp stays recorded as running. |
| `ProcessLifecycle_crash` | `CrashIsRecorded` | A process that exits at once has its failed event applied before Start's start event, which makes the record running with a dead PID. |
| `ProcessLifecycle_removed` | `RemovedStaysRemoved` | The watcher's event of a process that exited just before RemoveApp creates the record again. |
| `StatePersistence_stalecopy` | `QuietMeansSaved` | The copy is made before the store's mutex is taken, so an older copy may be written last. |
| `StatePersistence_repair` | `MainIsNeverTorn` | The repair from a backup rewrites the state file in place; a crash leaves it torn. |
| `StatePersistence_garbled` | `DamageIsRepaired` | A file that does not parse is not repaired, although a whole backup exists. |
| `DeclarativeApp_otherprogram` | `RecordedConfigRuns` | apply, stop, start of another program: applying the first configuration again reports it as applied, though it does not run. |
| `DeclarativeApp_final` | `ExpiredIsFinal` | expireApp meets a process that has just exited and records expired; the late event of the exit then makes it failed or stopped. |
| `DeclarativeApp_restartttl` | `RestartedLeaseEnds` | Restart arms the new deadline before the record has the new generation. A deadline due at once (a TTL of about a second, cut to whole seconds) is dropped, and the process never expires. |
| `DeclarativeApp_workdir` | `WorkDirIsKept` | applyProcess tests the record, then moves the directories; a process started in between loses its work directory when the apply is rolled back. |
| `StaticSite_crash` | `ServedSiteIsWhole` | Apply removes the old directory before it records the new site. After a crash in between the boot serves a directory that is gone. |
| `StaticSite_overlap` | `EveryListenerIsKnown` | With everything overlapping, a suspension in the middle of an apply lets a request open a second site, and the first one's listener is lost. |
| `DockerApp_crash` | `NoStrayContainer` | A crash between `docker create` and the record leaves a container nothing knows. |
| `DockerApp_overlap` | `EveryContainerIsKnown` | Two applies of one app overlap, and the container of one is lost. |
| `BootRestore_lease` | `NobodyOutlivesItsLease` | An automatic restart at boot after the deadline starts the app with no deadline armed, although docs/ARCHITECTURE.md:191 has it expire. |
| `BootRestore_slowreplay` | `NoProcessIsLeftBehind` | A batch saves the half replayed state; after a crash the apps not yet replayed are gone from the file while their processes run. |
| `BootRestore_laterequest` | `ShutdownStopsAll` | A request that outlasts the wait of `http.Server.Shutdown` starts an app after StopAll has taken its snapshot. |
| `LogFiles_samesecond` | `OldestGoFirst` | An app started twice in a second truncates the file of its first start. |
| `LogFiles_shared` | `LogsAreApart` | Two apps with the same executable share the names of their files, although the repository's README.md:36 promises logs of their own. |
| `LogFiles_restored` | `RestoredAreFound` | A rotation renames the file, but the record keeps the old path, since only tests call UpdateLogPath. A restart of the server then shows no logs. |

The safety properties of the passing runs state how far each of these reaches: `RecordIsTruthful`
holds unless an event was overtaken, an update lost or an outdated PID written, `ExpiryEndsItsOwn` unless a start was
under way, a restart wrote over the process of another operation or the app was removed, `OneLiveProcess` apart from strays, `NoProcessIsLeftBehind` and
`ShutdownStopsAll` apart from processes a kill failed on or was not allowed to, `LeaseIsKept` of `BootRestore` for an app a manager runs, apart from plain starts, `DroppedEventIsSaved` unless a save was cut
short, those of `StaticSite` and `DockerApp` for the overlaps they name, `NoStrayContainer` unless
Docker refused a command, the ones of `LogFiles` for an app whose names no other app has or extends, and `OldestGoFirst`
but for lines that a rotation overwrites in the second its file was made, when it could not rename that.

More of what the models do, each step of it a step of the code, which no property states:

* **Sites and idleness.** The TTL callback of a suspended app does nothing, and resuming the app
  arms no new deadline (`handler/phase3.go:376`): such an app no longer expires until it is
  applied again. A touch that falls between a suspension's write of the record and its flag
  arms the tracker for a suspended app. A suspension that begins while a resumption is under way may
  leave a suspended record with `idleApps` saying it is awake, which no request resumes. A suspension
  that meets an expiry may mark the expired record suspended. If a request overlaps both, the expiry may check
  a running app which is then suspended, remove the directory and mark the record expired while the
  request resumes it, and the resumption writes running over that: the next boot serves a directory that is
  gone. `ServedSiteIsWhole` therefore asks for `ExpiryApart`. Stop of a suspended site answers with an error, yet
  the site can no longer be resumed, and neither can it after a restart of the server. The
  directory of a suspended site that is applied again or removed stays behind. An apply with
  another token, or without exposure, leaves the old target in the proxy.
* **Generations.** They begin at 0 again when an app is removed. An apply that overlaps a Stop or
  Remove may arm its deadline after they have cancelled it; the deadline then outlives the record,
  and ends the first process of that generation after the next apply (`decl_safety` with
  `"remove"` in `Op` breaks `ExpiryEndsItsOwn` so). A restart whose process has exited
  writes its own generation over the process another request has started meanwhile, which its
  deadline then ends.
* **Restart of a declarative app.** It reads the record, then asks the registry, then writes the whole
  record (`handler/handler.go:694-713`). A start of another request announces its process before its Manager is in the
  registry (`runtime/runtime.go:275`, `runtime/multimanager.go:111-113`). A Restart that reads in between finds the record
  running and no Manager, and writes PID 0: the record then says running with PID 0 beside a live process,
  until the next event. If the app ends, or is stopped, between its two reads, or is started, the PID it writes
  may likewise be of another moment than the rest of the record.
* **Kills that fail.** The Manager has stopped running the process before the kill (`runtime/runtime.go:567`). A Stop that
  fails has cancelled the deadline (`handler/handler.go:572`) and leaves the record running with the PID: such an app no
  longer expires, each later Stop is refused with "no running application", and a Start makes a
  second process. A boot whose stop fails records the app expired (`handler/handler.go:170-177`), while
  the process lives. A shutdown goes on to the next app and saves a record that says running.
* **Leases and plain starts.** Stop cancels the deadline and leaves `ExpiresAt` in the record; Start and Deploy keep
  it and arm nothing. After apply with a TTL, stop and start, a running record has a deadline that nothing
  watches until a restart of the server, which arms it, or expires the app if it has passed.
* **Docker.** An apply over a suspended app leaves its paused container behind. A failed pause is
  recorded as a suspension. docker start refuses a paused container, so a boot gives it up. A graceful
  shutdown removes containers and files while the record says running, so the next boot
  records a failed restoration. stopDockerApp forgets the container even if its removal
  failed, and leaves the suspended flag set. A container that exits by itself stays recorded as running.
  Since no Docker app is registered with the proxy, `handler/phase3.go:387-417` is never reached,
  although docs/ARCHITECTURE.md:197-202 describes it.
* **Boot.** That an identity was verified is not saved (`json:"-"`), so each boot decides anew. An app
  with AutoRestart that was stopped by hand is started again by a boot. An app whose
  process died and whose TTL ran out while the server was down is recorded as stopped, not
  expired. An adopted process has no monitor.
* **Logs.** If both attempts to open a file fail, the Logger goes on in memory only, for good.
  Retention runs at a rotation only, so files of plain restarts accumulate, and it goes
  by prefix, so it may delete the files of an app whose name begins with this one's. A line
  scanned before Stop and logged after it is in memory only. A declarative app's record loses its
  log path in ReplaceApp, so its logs are not found after a restart of the server. Stop of an
  adopted app writes a line to memory, which hides the file. The table of
  file names at docs/ARCHITECTURE.md:120-131 is not what the code makes.

## 8. What is not modelled

* **Archive extraction** (`archive/archive.go`): one sequential loop with counters of its own, in
  a directory nobody else knows yet; tests cover its limits.
* **Handlers** that change nothing a property reads: uploads, which handle the files of one request,
  status, and the HTTP side of logs.
* **Docker**: command lines, named volumes, secrets and quotas, which are arguments; `Engine.Start`
  and `Unpause`, which are not reached.
* **Called by tests only**: `SetRotationConfig`, `UpdateLogPath`, `RestoreApps`.
* **Left out**: secrets, authentication, configuration, Kubernetes import, the API types and the
  command-line client (translations and checks with no shared state); the reading of `/proc`, of
  which the models have the verdict; the Windows process tree, a second build of
  `runtime/proctree_unix.go`.
* Output that a process has written but CaptureOutput has not read when the process is waited for.
* Two servers on one state directory: the lock file is meant for them, and
  `StatePersistence_stalelock` is about that file, but only one server runs in the model.
* Between the modules: `ProcessLifecycle`, `DeclarativeApp`, `StaticSite` and `DockerApp` have one
  app, because apps share no lock and no record. The modules in which apps meet have
  several: `BootRestore` (PIDs, the loops of boot and shutdown), `LogFiles` (the directory), the two
  schedulers (the queue). The state file is shared, which is why `StatePersistence` counts versions
  of the whole state.

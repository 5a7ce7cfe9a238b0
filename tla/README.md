# Nimbus Backup Client: a formal model

TLA+ specifications of the backup client of this repository, checked by TLC on
small instances, with theorems checked by TLAPS for every size. Paths are
relative to the repository. "The server" is Proxmox Backup Server (PBS), which is
not part of it.

## 1. The system

A service (`gui/service.go`, `gui/service_unix.go`) keeps a list of scheduled
jobs, offers an HTTP API on the local host to the desktop application, and runs
backups: of directories (an archive and a catalog, cut into chunks and uploaded
in a *session* that is committed by `Finish`) or of whole disks (fixed-size
blocks). The same code also runs inside the desktop application ("standalone
mode") and in command-line tools.

| Component | State | Operations | What makes it correct |
|---|---|---|---|
| Scheduler (`gui/scheduler.go`) | `scheduled_jobs.json`, `job_history.json`, `runningJobs` | start-up repair, ticker, startup run, run now, save/update/delete, end of a run | a job runs once at a time; due runs are not skipped; nothing acknowledged is lost; the history is true |
| API handlers of backups (`gui/api/server.go`, `server_inline.go`) | `backupProgress` | backup, status, cancel, eviction, inline jobs | every entry is closed, with the outcome of its own run |
| Cancellation slots and callbacks (`gui/backup_control.go`, `gui/app_service_stubs.go`) | `backupCtx`, `cancelFuncs`, `callbacksMap`, `currentBackupCancel`, `inlineJobID` | set and clear the context, register, cancel, dispatch | a stop reaches the run it names and no other; nothing outlives a run |
| Backup of one folder (`gui/backup_inline.go`) | attempt, chunk state, outcome, session | connect, upload, close indexes, retry, commit, report | a committed snapshot can be restored; the report is honest; no session is left |
| Batch of folders (`gui/backup_inline.go`, `gui/backup_status.go`) | semaphore, shadow set, aggregate | dispatch, merge, stop, release | success only of the whole; the shadow set outlives its readers |
| PBS session (`pbscommon/pbsapi.go`) | connection, writer ids | the requests of a session | retry only what may be retried; never resume a lost session |
| Disk pipeline (`machinebackuplib/`) | channels, known chunks, assignments | read, number, upload, list, commit | whole or not committed; never blocks |
| Block snapshots (`snapshot/`) | tracers, minors, mounts, shadow leases | create, clean up | one run never destroys another's snapshot |
| API token (`gui/api/token_rotate.go`, `auth.go`, `reauth.go`, `gui/token_refresh.go`) | token file, current and previous token, the copy of the application | launch, rotate, roll back, accept, re-read and replay | whoever reads the file is accepted; callers do not see a rotation |
| Configuration and servers (`gui/config.go`, `pbs_server.go`, `service_api.go`) | `config.json` of the service, of a standalone application, and a copy in its memory | edit, push, reload, list | a save loses nothing it did not change; no credential meets another identity |
| Disk pins (`gui/diskpin.go`, `diskpin_app.go`) | `PinnedDisks` | resolve, follow, refuse, save | a job reads the disk it was made for |
| Desktop shell and window (`gui/main.go`, `gui/api/client.go`, `gui/frontend/`) | the running job, the poll, the part in progress | start, poll, stop, split | what the window reports is what happened |
| Archive and catalog writer (`pbscommon/pxar.go`) | two streams | walk, headers, tables | the readers find exactly what was written |
| Restore, search and readers (`gui/restore_*.go`, `pbscommon/*_reader.go`, `nbd/`) | caches | list, search, extract, read ranges | the bytes that were stored; a restore said complete is |
| Analysis and split plans (`gui/backup_analysis.go`, `backup_split_api.go`) | none | pack directories into parts | each directory in one part |
| Encryption and paper key, log rotation, sanitising, command-line clients, packaging | | | not modelled, see 5 |

Interactions: the ticker and the API start goroutines that all end in
`RunBackupInline`; progress and completion travel back through callbacks kept in
one map; a stop goes through up to four places where a cancel function may be
registered; directory runs to one destination queue for a mutex, machine runs do
not; the desktop application talks to the service with a token both read from one
file, and pushes it whole configuration documents; each directory, or disk set, is one session of the server, which holds a
lock on its backup group until the session ends or its connection is found dead.

Hard behaviours: read-modify-writes of files without a lock; process-wide slots
shared by runs; retries after lost answers; a stop racing a commit; unbuffered
channels whose receiver is gone; crashes between the writes of a start-up or of
the end of a run; completion events that name no run; calls whose answer is lost;
kernel objects shared by processes that do not know of each other; files that
change while they are read. `PROJECT.json` lists each at its line under "hazards".

## 2. The modules

| Module | Models | Composition |
|---|---|---|
| `JobStore` | the pure functions on the job list: next run, create, edit, record a run, merge with `config.json`, repair | used by `Scheduler` |
| `Scheduler` | ticker, goroutines of jobs, API handlers, the two files, restarts | extends `JobStore` |
| `BackupControl` | the life of runs in the API: registration, slots, callbacks, stop | |
| `Snapshot` | abstract: at most one whole snapshot, and an honest report | promise of `FolderBackup`, guarantee used by `FoldersRun` |
| `FolderBackup` | one folder: session, uploads, retries, stop, commit | `HonestSnapshot` is `Snapshot` under a refinement mapping |
| `FoldersRun` | dispatcher and folders of a batch | each folder ends as `Snapshot!Honest` allows |
| `UploadWorker` | reader, workers and collector of a disk | |
| `GuiRun` | a split backup, from the window to the service's answers | the service reduced to what `BackupControl` lets it answer |
| `LocalToken` | the token of the local API, in the service, its file and the application | |
| `ServerConfig` | the list of servers, in the service, the application and the documents between them | |
| `DiskPins` | which disk a selection stands for | |
| `LinuxSnapshot`, `ShadowCopies` | block snapshots on the two systems | |
| `Archive` | the writer of archive and catalog | |
| `ArchiveReaders` | the readers of what it wrote | extends `Archive` |
| `RestoreRun` | listing, search and restore of one snapshot | |
| `ImageReader` | reads of byte ranges through a chunk cache | |
| `SchedulerProofs`, `BackupControlProofs`, `FolderBackupProofs` | theorems about the module they are named for | extend it, and TLAPS |
| `ArchiveProofs` | theorems about `Archive` and `ArchiveReaders` | extends them, and TLAPS |
| `RunsProofs`, `DesktopProofs`, `HostProofs`, `DataProofs` | theorems about `FoldersRun`, `UploadWorker` and `GuiRun`; `ServerConfig` and `LocalToken`; `LinuxSnapshot`, `ShadowCopies` and `DiskPins`; `RestoreRun` and `ImageReader` | extend them, and TLAPS |
| `MCScheduler`, `MCBackupControl`, `MCRuns`, `MCHost`, `MCDesktop`, `MCData` | instances for TLC | see 3 |

### JobStore, Scheduler

A job is its schedule (a tick of the day, or none), whether it is enabled and
runs at startup, and its last and next run; an API call may leave out whether the
job is enabled, as the JSON decoding does. `file` is
`scheduled_jobs.json`. Every operation on it is two steps, a load and a store,
because the code takes no lock: `LoadJobs`/`StoreJobs` for the handlers,
`RereadJobs`/`StoreRunRecord` for the end of a run. The same holds for
`job_history.json` (`LoadHistory`/`StoreHistory`). A goroutine goes from
"spawned" through `ClaimJob` (or `SkipRunningJob`), `BackupReturns`, the history,
the run record and `ReleaseJob`. `CheckAndRunScheduledJobs` is one tick: it
spawns a goroutine for what is due. `Start` is the service start: clean up the
history, merge `config.json`, repair the run times, each its own step with a
crash possible in between. Each may fail to read its file or to write it; the
code then logs that, leaves the file as it was and goes on, and so does the model:
the service comes up all the same. `HandleStartupRun` may fail its read too, and is not
tried again. `overlapped`, `intended`, `uncleaned` (the clean-up of this start failed),
`unrepaired` (the jobs a failed repair of this start left without a run time) and the
`truth` of a history entry are history variables; the code has none of them.

### BackupControl

One goroutine per run; each mutex section of the code is one step, in the code's
order. A token is a context with its cancel function: a run's own (`Own(r)`, made
by `handleBackup`) or the shared one (`Shared(r)`, made by `newBackupContext`).
`backupCtx`, `currentFunc`, `jobFuncs` and `sharedCancel` are the four places a
stop looks at, in that order of `LookUpCancel`, `FallBackToContext`,
`FallBackToShared`. `mixed` is a history variable: some run overlapped another, or
followed one that left its callbacks behind.

### Snapshot, FolderBackup

A folder is two streams of chunks, the archive and the catalog. Each request is a
step that is answered, refused, or cut off with the connection before or after
the server served it; `pkg/retry` is modelled by how a retried request ends. The
server (`session`, `store`, `index`, `closed`, `sealed`, `snapshots`) is what the
client relies on: it keeps chunks, an index holds what was assigned, `Finish`
commits a sealed session, and a dead connection keeps the group lock for up to
`ReapDelay` ticks. `attempt`, `failed`, `known`, `sent` and the rest are the
variables of `runBackupInlineInternal` and `ChunkState`.

### FoldersRun

`StartFolder` takes a slot of the semaphore and starts a goroutine; `FolderRunEnds`
is the return of `runBackupInlineInternal` and the merge under `mu`. What a folder
does inside is replaced by what `Snapshot` promises: it may commit
(`FolderCommits`) and then report anything `Honest` allows. `CreateShadowSet`
succeeds, or the run falls back to one shadow copy per folder and one folder at a
time.

### UploadWorker

A worker is idle, has taken a block, uploads, looks at the error, lists the block,
or sends its last message; a send on an unbuffered channel and its receipt are one
step. `sharedErr` is the `err` of `uploadWorker` that the worker closures assign: the
assignment and the test are two steps, as two goroutines may interleave them.
The reader is the one of a disk with snapshots (`writeSegments`), which gives up
when the uploader is gone. A reader that only sends, like that of
`BackupFileDevice`, is the mutant `ReaderDropsForgotten` and can block for ever.

### GuiRun

`Window` is the loop over the parts in `App.jsx`: it arms a one-shot listener for
`backup:complete`, starts a part, and takes the next event for its outcome, since
events carry no run id. The application process either polls the service, where
calls may be lost and the service restarted, or runs the backup itself. `ClickStop`
and `SendStop` are the two halves of `CancelBackup` when it asks the service:
looking up which job to stop and sending the request. A backup is whether it
succeeds; `partOf`, `whole` and `stopped` are history variables.

### LocalToken

The service makes a token at start and replaces it in four steps
(`InstallToken`, `OpenTokenFile`, `WriteTokenFile`, or `RollBackToken`), of which
the opening truncates the file; the replaced token is accepted until `EndGrace`.
The application takes its token at launch from the environment, the file, or an
elevated child. A request that is rejected goes through the steps of `reauth.go`:
was it refreshed meanwhile, fetch, store, send again once. Requests are concurrent.
`excused` is a history variable: the requests that something disturbed on their
way, such as a refusal, a crash, or a token that is revoked or published. A new
token that the service has only taken disturbs none.

### ServerConfig

Each entry of the list is its address, an identity and the credential stored with
it, where a credential is modelled as the identity it was issued for. The service
owns the list; an application in service mode holds a copy without credentials and
pushes the whole document (`EditAndPush`, `PushRefused`, `PushLost`), and the
service fills in the credentials it has (`Merged`, by `normalizeServerAuth`) or
refuses all of it; a standalone application edits a
list of its own.

### DiskPins

A disk has an id, or none (`Anonymous`), and is at a slot that `Renumber` changes.
`Run` resolves the selection with `resolvePinnedDevice`, merges the pins with
`mergeDiskPins`, and saves them, which may fail; `Restart` reads what was saved.

### LinuxSnapshot, ShadowCopies

A run is one call of `CreateVSSSnapshot` with all its failures and undo paths.
In `LinuxSnapshot` the kernel's tracers, the files they leave on devices, and the
mounts are shared by all processes, `tracked` is per process. Removing what looks
stale is one step per tracer after one reading of the kernel's list, so that other
runs act in between. In `ShadowCopies` the order of creation, lease, marker
directory and link is the code's, and a cleaner reads the markers, looks at each,
asks for its lease, and deletes. `disputed` (two live runs had a device in common)
and `orphans` (the copies a clean-up has to answer for) are history variables.

### Archive, ArchiveReaders

`WriteDir` and `WriteFile` as a stack of directories that is walked one entry at a
time, the virtual files of the root first, with changes by other programs in
between. The streams are sequences of cells; headers, padding, tables and their
offsets are kept, contents are not. A frame of the stack holds what `os.ReadDir` told
of the directory when it was opened, less what the walk has passed. `log` (what was
written, in order) and `late` (what changed after the walk had left it) are history
variables. The two readers and the search in a goodbye table are recursive functions
over a stream, in `ArchiveReaders`: the walk of the archive as the state it is in after
each header, the walk of the catalog as what each table leads to, the search as the
slot it looks at after each comparison.

### RestoreRun

One action per entry and step: pass over, make a folder, create the temporary
file, copy, rename, with failures, a crash, and another program that writes at the
destination. The cache of listings is shared by the listing, the search and the
restore.

### ImageReader

`FIDXServer` holds its lock over a read, `DIDXReader` only over each access to its
cache; both are here, chosen by `index`. The byte at position i of the image is i,
so a wrong offset is a wrong byte.

## 3. What the runs check

Deadlock checking is off because every system here may stop: runs end, and the
bounds on clocks, calls and failures are used up.

`MCRuns`, `MCHost`, `MCDesktop` and `MCData` each hold several components that ask
one question of different parts of the system. A behaviour follows one of them
(`scale` or `part`) while the others stay in an initial state, so their state spaces
add up and do not multiply: these components share no variable. Where two
components do interact, they are in one module (ticker, handlers and files in
`Scheduler`; runs and stops in `BackupControl`; application, service and file in
`LocalToken`) or one uses the promise of the other (`FoldersRun` and `Snapshot`).

| Run | Instance and bounds | Shows |
|---|---|---|
| `scheduler` | 2 jobs, 2 goroutines (symmetric), 1 handler, 3 ticks of a 3-tick day, 1 call, 1 failure (of a read or write, at the start too) or crash, 2 history entries; stores with a due job, and with an unreadable run time beside a job that `config.json` declares | `ClaimsExclusive`, `HistoryHonest`, `NextRunKnown`, `NoLossWithoutOverlap`, `StartKeepsRunRecord` |
| `scheduler_live` | 1 job, a 2-tick day, so that a job falls due again, 1 failure | `OverdueRuns`, `ClaimReleased` |
| `scheduler_edits` | as `scheduler`, without failures | violation of `RunKeepsEdits` |
| `control` | any two of an API run, a scheduled run and a scheduled machine run, 1 stop | `SlotsEmpty`, `ScheduledStatusTrue`, `StatusTrueWhenAlone`, `StopsOnlyTheAskedWhenAlone`, `EveryRunCloses` |
| `control_stop` | one API run and one stop | violation of `CancelHonoured` |
| `runs` | folder: archive of 3 chunks in 2 batches with a duplicate and a known chunk, catalog of 2 that shares one, 2 attempts, 4 failures, wait 2 > reap 1 | `CommittedRestorable`, `SessionReleased`, `CancelCommitsNothing`, `HonestSnapshot`, `FolderRunEnds` |
| | batch: 3 folders; option 0, 2 or 4 | `SuccessIsWhole`, `ShadowsKeptWhileRead`, `BatchRunEnds` |
| | disk: 2 workers, 5 blocks with duplicates and a known chunk, announced as 1, 4 or 5 blocks, 2 failures | `CommittedWhole`, `DiskRunEnds` |
| | window: 2 parts, 3 jobs and one of another client, 2 poll errors (20 in the code), 2 lost calls, 1 stop | `HonestSplit`, `SplitRunEnds` |
| `upload_race` | the disk of `runs` | violation of `Confirmed` |
| `host` | 3 Linux runs in 2 processes, of which one needs both devices of the others, 3 minors, 2 failures | `ReadsOwnSnapshot`, `SuccessLeavesNothing` |
| | 2 Windows runs that share a volume and a process that starts, VSS busy once, 2 failures | `LeasedShadowKept`, `OrphansRemoved` |
| | 3 disks, one without an id, 3 slots, a selection of 3, 3 moves | `SameDiskUntilRepinned` |
| `disk_pins` | the disks of `host` | violation of `SameDiskKept` |
| `desktop` | 2 requests, 4 tokens, 2 prompts, 2 failures; requests symmetric | `FileAccepted`, `RotationUnseen` |
| | 2 servers, 2 API tokens, a user and a key (servers and tokens symmetric), 3 edits, 1 failed push | `CredentialsPaired`, `OthersKept` |
| `config_wipe` | the servers of `desktop` | violation of `ServersLeaveOnlyWhenDeleted` |
| `data` | a tree of 8 entries below its root with 2 changes by other programs, one virtual file, names whose hashes are not in their order, two kinds of patterns | `ReadersAgree`, `GoodbyeFinds` |
| | restore of a folder and 2 files, 7 selections, 2 failures | `VerifiedIsWhole`, `TargetsWhole`, `SuccessIsThere`, `StoppedSearchLeavesNoTrace` |
| | image of 5 bytes in 3 chunks, fixed or dynamic, caches of 2, 2 goroutines, 3 reads of 0, 1, 3 or 6 bytes, 1 failed fetch | `ReadsImage` |

What some of them say, beyond their names: `HonestSplit`, that a split backup
the window reports as complete had every part backed up; `ReadsOwnSnapshot`, that
while no two live runs share a device, a backup reads exactly the devices it asked
for, each through its own tracer; `SameDiskUntilRepinned`, that a saved selection
keeps standing for the same disks until a pin followed its disk or was lost;
`RotationUnseen`, that a request is rejected only if, while it was on its way, the
user refused the prompt, the service published, lost or revoked a token or failed to
write it, or a slower request put back a token that was replaced; `OthersKept`, that
an application whose list came from the service changes there only the servers the
user edited; `VerifiedIsWhole`, that a backup without read errors
holds every file that was not left out on purpose, as long as it was when the walk
left it; `SuccessIsThere`, that a restore that says so put every selected file in its
place; `TargetsWhole`, that every file of the destination is what it was or whole; `StoppedSearchLeavesNoTrace`, that the
cache never says "no sidecar" because a search was stopped.

Why the bounds are enough: two actors are what an unlocked read-modify-write, a
shared slot or a shared variable needs to go wrong; two jobs or servers tell "this"
from "another"; four failures are enough to lose both attempts of a folder and the
`Finish` of a third request; batches of 2 make an index that is assigned in more
than one request; 5 blocks for 2 workers leave the reader with something to send
after both workers are gone; three tokens make the token of before the last
rotation, which no grace covers, and a fourth one more rotation while a request that
read it is still on its way; three Linux runs have two that overlap and one
that keeps a minor between them; an image whose length is not a multiple of its
chunk has a short last chunk, and reads of 3 bytes cross chunks while reads of 6
pass its end. A bound hides what needs more of the same at once: a third process,
a third prompt, or a selection of more disks.

Fairness. `Scheduler`: the ticker, each spawned goroutine and each handler get
their turn (Go's scheduler), and the service manager restarts the process
(`Restart=on-failure`). Users, crashes and failures are owed nothing. A backup
returns, which `FolderBackup` and `FoldersRun` show for directories.
`BackupControl`: each goroutine goes on when it can. `FolderBackup`: the goroutine
of the run goes on when it can (`LocalStep`) and the wait between attempts passes;
skipping files and stopping are not owed. `ServerAnswers`, the rest of its fairness, is
an assumption on the server and not a fact of the code: a request is answered in the
end, or its connection breaks, and the server notices a dead connection. Nothing in the
client bounds a request: it carries no context, the client has no timeout, the dial and
the upgrade have no deadline (`pbscommon/pbsapi.go:1286-1365`), `retry.Do` looks at its
context between calls, and the HTTP/2 ping ends a dead link but not a live server that
never answers. With such a server a run does not end, and keeps its claim, the lock of
its group and the turn of its destination; a stop does not free them. What is said here of
runs that end (`FolderRunEnds`, `BatchRunEnds`, `DiskRunEnds`, `SplitRunEnds`,
`EveryRunCloses`, `ClaimReleased`, `OverdueRuns`) rests on it. `FoldersRun`: the
dispatcher and each folder go on. `UploadWorker`: the reader, the collector and
each worker go on. `GuiRun`: the loop of the window goes on, the poll ticks, a stop
under way is sent, and backups end; clicks, lost calls and restarts are not owed.
The other modules state no fairness: their properties are safety.

The violations are disagreements between what the code says of itself and what it
does; "findings" in `PROJECT.json` quotes the line and tells each. In short:

1. an edit made while a run stores its record is undone (`gui/scheduler.go:939`);
2. a stop during the start of a run is acknowledged and lost
   (`gui/backup_control.go:250`);
3. workers share an error variable, and a disk index can be committed without a
   chunk (`machinebackuplib/machinebackup.go:222`);
4. a pin follows its disk to another slot, so the slot a job names is later read
   literally (`gui/diskpin.go:231`, against `gui/config.go:144-151`);
5. an application that never got the list of servers pushes its empty one, and the
   service deletes all of its own (`gui/service_api.go:145`).

### Disagreements without a run

Definitions that state a comment of the code and do not hold of it, kept beside the
properties: `FinishedIsFinal` (`BackupControl`; a run that fails to start leaves
callbacks behind, through which the next one rewrites its finished entry,
`gui/backup_control.go:138`), `FinishedIsUsable` (`FolderBackup`; failed chunks of a
first attempt make a good second one look failed, `gui/backup_inline.go:990`),
`FailedMeansNothing` (`FoldersRun`; one failed folder makes the batch failed,
`gui/backup_status.go:120`), `OnePrompt` (`LocalToken`), `AclsRestored` (`RestoreRun`; the client that
fetches the ACLs of an encrypted snapshot has no key,
`gui/restore_inline.go:706`), `StopHitsOwn` (`GuiRun`; a second click on Stop falls
back to the service's list and can stop another client's job), `CacheWithinLife`
(`ImageReader`; the cache holds up to 31 chunks where `nbd/fidxserver.go:14` says
16).

Met while reading and modelling:

- After a failed write of the run record a job starts again at every tick, and a
  goroutine that a slow tick spawned starts a job whose run time was advanced
  meanwhile, which the comment at `gui/scheduler.go:759` rules out.
- Each step of a start that cannot read or write its file is given up and not tried again
  before the next start: entries of an earlier release stay "running"
  (`gui/scheduler.go:633`, `:664`), an enabled job without a run time is skipped by every
  tick until it is edited (`:554`, `:595`), and the startup jobs of this boot do not run.
- A second run cancels the shared token of the first, which then reports
  "cancelled by user" (`gui/backup_inline.go:118`).
- A restore in place in service mode is always refused: `ReadSnapshotMetaInline`
  (`gui/restore_inline.go:434`) wants an identity and a secret where only a ticket
  is held.
- A failed read of the sidecar is cached as "no sidecar" (`gui/restore_cache.go:36`).
- Callers can see a rotation, against `gui/api/reauth.go`: a request that asks for the
  elevation while another rotation revokes what it fetched puts the old token back,
  and a request that nothing else disturbed is then rejected with it.
- A token file that was truncated before its write failed disagrees with the token
  in memory until the next rotation or start.
- When two live runs have a device in common, what looks to one like a tracer of a
  crashed run is the other's (`snapshot/linux_snapshot.go:188`); without that
  `OnlyCrashedAreStale` is proved.
- With overwriting off, a file that appears between `os.Stat` and the rename is
  replaced. Opening a FIFO blocks the walk, and a read error in the middle of a file
  fails the whole folder.
- A failed save of pins is not tried again; an edit whose push was refused stays in
  the memory of the application; `normalizeServerAuth` drops the user and password
  that the comment at `gui/service_api.go:316` counts on.
- In standalone mode a panic in `RunBackupInline` emits no completion event, and the
  window waits; a lost answer to the start of a backup leaves a job nobody follows.
- A chunk that came short stays in the cache of `FIDXServer` and fails later reads;
  `FIDXServer` does not compare digests.

## 4. What is proved

`SchedulerProofs` proves, for any number of jobs, goroutines and handlers, any day
length, clock, calls and failures:

| Theorem | States |
|---|---|
| `TypeCorrect` | `Spec => []TypeOK` |
| `ClaimsAreExclusive` | `Spec => []ClaimsExclusive`: no two goroutines run one job |
| `NextRunsKnown` | `Spec => []NextRunKnown`: no enabled job is without its run time, but those a failed repair of this start left so |
| `StartPreserves` | `Spec => StartKeepsRunRecord`: a start loses no job, last run or pending run |
| `NothingLostAlone` | `Spec => []NoLossWithoutOverlap`: writers that never overlap lose nothing |
| `HistoryIsHonest` | `Spec => []HistoryHonest`: the history is true, bounded, and names a run once; "running" is in it only after a failed clean-up |

Assumed: `StoreAssumption` and `SchedulerAssumption` (the constants have their
types, a day has ticks, the history a capacity). The invariants are made inductive
by what a goroutine or a handler holds between its two steps: `TypeInv` adds that a
goroutine about to write a run record has read its job (else `RanJob` would write
a job that does not exist), and `KnownInv` adds that every list loaded by a
goroutine or a handler has its run times already, but for the jobs in `unrepaired`,
because a stale list is written back whole, and that nothing runs before the repair is done (`Quiet`). `LossInv` says
that as long as nobody overlapped, whoever is between a read and a write is alone
there and holds the file as it stands. For the history, the outcome a goroutine is
about to record is true and of a run of its own (`OutcomeInv`), and it is neither in
the history nor in any copy of it that is about to be written back (`HistInv`): two
goroutines that write over each other lose entries, but cannot repeat one. A copy of the
history taken after a clean-up that succeeded holds no running entry either (`Closed`), so
none comes back. The
lemmas about `JobStore` say what the merge and the repair preserve.

`FolderBackupProofs` proves, for any contents, batch size, number of attempts and
failures, and any delays with `ReapDelay < RetryWait`:

| Theorem | States |
|---|---|
| `TypeCorrect` | `Spec => []TypeOK` |
| `Restorable` | `Spec => []CommittedRestorable`: what is committed is the whole folder, all of it stored |
| `Released` | `Spec => []SessionReleased`: no session is left open |
| `CancelHonoured` | `Spec => []CancelCommitsNothing` |
| `RetryUnlocked` | `Spec => []RetryFindsLockFree` (proved only) |
| `Implements` | `Spec => HonestSnapshot`: the run implements `Snapshot` |

Assumed: `FolderAssumption`. Only its part `ReapDelay < RetryWait` is about more
than types, and only `RetryUnlocked` needs it: it is what `sessionLostRetryWait`
says of the server. The inductive invariant `Inv` has one part per question:

- `SessionInv`: the client has its connection exactly while the server has the
  session open, and an error ends the attempt. This is why a run that got through
  still commits the session it filled.
- `LockInv`: a lost session is as old as the wait for its lock.
- `CommitInv`: nothing is committed before `Finish`, and never after a timely
  cancel.
- `DataInv`: what is known or listed is stored; the index of a live session holds
  the first part of what was listed, and all of it once closed. `CommittedRestorable`
  alone says nothing before the commit; this part carries it there.
- `IssueInv`: the issues to report are those of the walk that is committed.

Each part has a lemma with one step per action. `Implements` maps `Finish` with a
commit to `Commit`, the three cancelled ends and `Report` to `End`, and every other
step to a stutter.

The other proof modules:

| Theorem | States | Assumed |
|---|---|---|
| `RunsProofs!SuccessWhole` | `BatchSpec => []SuccessIsWhole` | `FoldersAssumption` |
| `RunsProofs!ShadowsKept` | `BatchSpec => []ShadowsKeptWhileRead` | `FoldersAssumption` |
| `RunsProofs!CommitsWhole` | `DiskSpec => []CommittedWhole` | `UploadAssumption` |
| `BackupControlProofs!SlotsAreEmpty` | `Spec => []SlotsEmpty` | `ControlAssumption` |
| `BackupControlProofs!ScheduledStatus` | `Spec => []ScheduledStatusTrue` | `ControlAssumption` |
| `BackupControlProofs!StatusAlone` | `Spec => []StatusTrueWhenAlone` | `ControlAssumption` |
| `BackupControlProofs!StopsAlone` | `Spec => []StopsOnlyTheAskedWhenAlone` | `ControlAssumption` |
| `RunsProofs!SplitIsHonest` | `SplitSpec => []HonestSplit` | `GuiAssumption` |
| `DesktopProofs!Pairs` | `Spec => []CredentialsPaired` | nothing |
| `DesktopProofs!OthersAreKept` | `Spec => OthersKept` | nothing |
| `DesktopProofs!FileIsAccepted` | `TokenSpec => []FileAccepted` | nothing |
| `DesktopProofs!CallersSeeNoRotation` | `TokenSpec => []RotationUnseen` | nothing |
| `HostProofs!NothingIsLeft` | `Spec => []SuccessLeavesNothing` | `SnapshotAssumption` |
| `HostProofs!ReadsItsOwn` | `Spec => []ReadsOwnSnapshot` | `SnapshotAssumption` |
| `HostProofs!StaleAreOfTheDead` | `Spec => OnlyCrashedAreStale` (proved only) | `SnapshotAssumption` |
| `HostProofs!LeasedAreKept` | `ShadowSpec => []LeasedShadowKept` | `ShadowAssumption` |
| `HostProofs!OrphansAreRemoved` | `ShadowSpec => []OrphansRemoved` | `ShadowAssumption` |
| `HostProofs!PinsHold` | `PinsSpec => []SameDiskUntilRepinned` | `PinsAssumption` |
| `ArchiveProofs!VerifiedHoldsAll` | `Spec => []VerifiedIsWhole` | `ArchiveAssumption` |
| `ArchiveProofs!ReadersAgreeAlways` | `Spec => []ReadersAgree` | `ArchiveAssumption` |
| `ArchiveProofs!GoodbyeFindsAlways` | `Spec => []GoodbyeFinds` | `ArchiveAssumption`, and no two names have the same hash |
| `DataProofs!FilesAreWhole` | `RestoreSpec => []TargetsWhole` | `RestoreAssumption` |
| `DataProofs!RestoredIsThere` | `RestoreSpec => []SuccessIsThere` | `RestoreAssumption` |
| `DataProofs!StopsAreForgotten` | `RestoreSpec => []StoppedSearchLeavesNoTrace` | `RestoreAssumption` |
| `DataProofs!ReadsAreOfTheImage` | `ImageSpec => []ReadsImage` | `ImageAssumption` |

The assumptions give the constants their types. `RestoreAssumption` says besides that
what lies above an entry of a snapshot is a folder, and that a selection is finite;
`ImageAssumption`, that the ends of the chunks of a dynamic index grow and the last is
that of the image; `ArchiveAssumption`, that what lies above an entry of the folder is
a folder, and that `None` is no result, no file under way and no item of a table. The
hashes of a real archive have 64 bits, and the code does not look for two that are
equal: that no two are is a hypothesis of the theorem that needs it, not an
assumption of the model. The arguments:

- *FoldersRun.* A folder is idle exactly until its turn comes, and all are merged
  once the run has drained (`TurnInv`); a merged folder is whole or left its mark
  on the outcome and the errors (`MergeInv`); ending before every folder was started
  leaves an error and no success (`EndInv`). So success leaves no folder out.
  `ShadowInv` keeps the set of shadows while a folder that needs it is in flight.
- *UploadWorker.* Each block that was sent is at exactly one place: with one worker,
  with the reader's channel, or listed (`PlaceInv`); a worker that leaves has none
  unless it failed (`WorkerInv`); the collector commits only after the reader ended
  and every worker left (`MainInv`); the count is the number of listed blocks, and a
  block too many keeps its worker from leaving (`DiskCountInv`). The shared error
  variable is why this bounds positions and not the presence of chunks
  (`Confirmed` fails).
- *BackupControl.* A slot that is not empty has some run on its way that will empty
  it, whether its own or another (`SlotInv`); nothing in flight means nothing left.
  The entry of a scheduled run is closed last by its own run (`ScheduledInv`),
  because the scheduler's own closing comes after every callback of the run. While
  runs never overlapped, the run in flight is the only one, its callbacks are the only
  ones, and an entry shows its own run (`StatusInv`); the slots then hold contexts of
  the run in flight or nothing (`SlotsOwned`), so that a stop under way, which keeps
  what it found across steps, has found a context of its own target
  (`StopsItsTarget`) and cancels what was asked for (`CancelledWhenAsked`).
- *GuiRun.* At most one job is followed, it is of the part in progress, and nothing
  was heard of it yet (`FollowInv`); so an event that is heard, though it names no
  run, is that job's (`TrueInv`), and the count of parts is right (`CountInv`).
- *ServerConfig.* Both stored lists pair every credential with its identity, and the
  memory of the application holds only what a form could submit, so a merge by the
  service cannot join a stored credential with another identity. For `OthersKept`:
  once the application has a list from the service, it tells of every server the user
  did not touch what the service has, less the credentials (`SyncInv`), and filling
  them in again restores the entry (`NormalizeRestores`).
- *LocalToken.* The file holds the service's token, or during a rotation the
  replaced one that is still in its grace, or is empty (`FileInv`); a service
  that is down knows no token (`DownInv`). That the grace
  outlasts a write is in the model (`EndGrace` waits for the rotation): minutes
  against milliseconds. For `RotationUnseen`: while nothing disturbs a request, the
  token kept for all is accepted, or is still the one it was sent with, and what it is
  about to keep is accepted (`Quiet`); so what it is sent again with is accepted.
- *LinuxSnapshot.* The kernel has one tracer per minor and one per device
  (`TracersDiffer`). What a run holds is in its list or is the snapshot it is at, and a
  tracer may be missing from the list only once an error was noted (`KeepsTrack`);
  this holds even among runs that take each other's devices, and an empty list at the
  end then means nothing is left. While no two live runs had a device in common, a
  run's snapshots are its own, one for each device it has passed (`Owns`): what another
  run takes for stale, it finds on a device of its own paths. That the smallest free
  minor exists comes from the library's well-foundedness of the naturals.
- *ShadowCopies.* A marker is made after the lease was asked for, so whatever a
  clean-up has read or looks at is a copy whose lease is not still to come
  (`MarkersInv`); a copy with a held lease is therefore out of its reach until its run
  has deleted it (`LeasesInv`). A copy to answer for keeps its marker until the
  clean-up gets to it (`OrphansInv`); the marker another clean-up is about to remove is
  the one exception, which the proof attempt brought to light.
- *DiskPins.* As long as no pin moved or was lost, the disk an entry first stood for is
  named by it or pinned to the slot it names (`MeantIsPinned`), and no slot is pinned to
  two disks (`PinsDiffer`), so that the slot leads to that disk only.
- *Archive.* Everything in a directory that was opened is still to come in a frame of
  the stack, or settled: left out on purpose, noted as a read error, late, gone or
  written (`WalkInv`, where the child the walk is at counts as to come until it ends).
  The file under way is that child (`FileInv`); the virtual files come first, so that
  the rest of the log is of the walk (`StartInv`); a directory is logged as one, and
  what is late was written (`LogInv`); a file gets zeros only with a read error
  (`CellsInv`). Suppose then that the archive is done without read errors and some path
  is missing: one of least depth has a parent that was opened, hence it is settled, and
  nothing is left that it could be (`CoveredBelow`, `VerifiedState`).
- *ArchiveReaders.* The reader of the archive is a function of the stream, so the
  invariant says at which state it is after what was sent so far (`WalkedInv`): between
  two headers, with the path of the innermost frame and the entries of the log, or inside
  the file under way with its payload ahead. More cells at the end change nothing of the
  steps before them (`ReachesStill`), and each `Send` is a few more steps of the reader. The
  reader of the catalog is a function on tables whose rows lead backwards, so that what a
  table leads to is the one solution of its equation, whatever is appended later
  (`Solved`); the log is the sum of what each open frame has written and what lies below
  the directories it has closed (`CatalogInv`). When the root, the one frame without a
  name (`RootInv`), is closed, the trailer leads to a table that holds it all.
- *The goodbye tables.* What is noted of an entry leads to its header (`Leads`). A name in
  the archive is in a directory that was closed, or noted in one that is open, or it is
  that of an open directory or of the file under way (`NamesInv`); so when a directory is
  closed, its table has every name that no table below it has (`TablesInv`, for which
  `FramesInv` keeps each open directory after what is noted around it). What the search
  then finds does not depend on the archive. `PowerUpTo`, the calls of `BstCalls` and the
  slots of `Find` are recursive functions, and the lemma `Recursion`, proved here by
  well-foundedness, says that such an equation has a function that solves it. `ByHash`
  only reorders (`ByHashSorts`, by the cardinality of what comes before). The calls split
  the sorted items as the array layout of a binary tree wants it: each level is full but
  the last, which is filled from the left (`Shaped`), so a call that has items has a
  slot of the table (`TopShaped`, `BelowShaped`), and slot by slot what is sought stays
  in the call the search is at until it is met (`Seeks`, `SearchHits`, `SearchFinds`).
- *RestoreRun.* Every entry the walk has passed and the selection wants is written,
  failed or kept, and no other is (`WalkInv`), so a verdict that counts no failure has
  every wanted entry in its place. That the wanted entries are the selected ones is
  where the code is delicate: an alternate destination drops what is not below the
  common ancestor of the selection. A selected entry that is dropped is that ancestor
  itself, and all that is selected and not dropped is below it (`DroppedIsAbove`); the
  verdict has met such an entry in the snapshot, since placing keeps what is a prefix
  of what (`PlacePrefix`), so the dropped entry is a folder and no file is missing
  (`SelectedIsWanted`). An open temporary file belongs to a file that may be replaced
  (`TargetInv`). A search keeps what it learnt of the sidecar across a stop and the save
  (`ListingInv`).
- *ImageReader.* The pieces `getChunksIndexes` cuts lead from the first wanted byte to
  the last without a gap or an overlap (`SlicesLead`; a piece at the end that would be
  empty is dropped), and a read that goes on has pieces that lead on from what it got
  (`ReadInv`). The cache of the server holds each chunk whole, or what a failed fetch
  left of it, which a read takes only as far as it goes (`FixedCache`); the other cache holds only whole chunks
  whichever two readers put at once (`CacheKeepsWhole`). What a read got is then the
  bytes of the image from its offset at every step, not only at the end. The lemmas
  about division and products (`Division`, `Multiples`) are what turns positions
  into chunks for any chunk size.

Every invariant and action property the runs check is stated by a theorem. Only model-checked, because it is
not provable here: liveness under fairness, and under the assumption that the server
answers (`OverdueRuns`, `ClaimReleased`,
`EveryRunCloses`, `FolderRunEnds`, `BatchRunEnds`, `DiskRunEnds`, `SplitRunEnds`).

## 5. What is not modelled, and the plan

Not modelled: encryption and the paper key (cryptography and formatting); the
rolling hash; HTTP and TLS below the level of a request; the analysis and packing of
split plans (a sequential walk, and a greedy choice that tests cover), whose
execution is `GuiRun`; log rotation (renames nobody else reads); sanitising of log
lines; the command-line clients (one run each over the same session operations);
the user interface apart from the loop over parts, whose calls are the inputs of
the handlers; installers and images; progress figures and messages.

Within the modelled parts: the number of bytes, backoff times, log lines, settings
of the configuration other than servers, jobs and pins, the backup files of the
configuration and the migration of its old form, finding and stitching the
partitions of a Windows disk, the assembling of a whole archive in a temporary file,
ACLs and attributes, and the NBD protocol. The server is external: it is what the
client relies on, and it answers (`ServerAnswers`, see 3). A listing of the disks that
fails while disks are connected is taken like one that finds none
(`gui/diskpin_app.go:31-35`): the code treats the two alike, and reads the named slot whatever
is pinned to it; in the model only a machine without such disks does that, and no pin is
held against it.

What is left, most important first:

1. Pure operators with reference definitions: `assembleSegments` and
   `resilientCopy` (every byte of the disk once), split plans.
2. The backup files of the configuration and its migration, the assembling of
   archives, the command-line clients.

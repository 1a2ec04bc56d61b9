# TLA+ models of vim-config's programs

The repository is a collection of editor, terminal and desktop configuration
with a few programs in it.  This directory models the programs that keep state
across system calls, processes and crashes; configuration files are not
modelled.  The one large program is **pane-load**
(`herdr-plugins/pane-load`, about 18 000 lines of Rust): a resident process
sampler for the Herdr terminal and, in the same binary, a process-history
recorder with a durable, compressed archive.

## 1. The system

### pane-load recorder (`src/recording/*`, `src/recording_native.rs`)

| Component | State it keeps | Operations | Talks to |
|---|---|---|---|
| **ArchiveWriter** (`store.rs`) | directory of a profile: `archive.json`, `frame-*.pcr.br`, `manifest.json`, `active.journal`, temporary files, `writer.lock`; memory: `frames`, `active`, `active_wire_bytes`, `usage_bytes`, `next_id`, `poisoned` | `open` (clean, create, scan, rebuild manifest, recover journal), `append`, `flush_frame`, `finish`, drop | the file system |
| **Archive reader** (`store.rs`: `visit_blocks`, `scan_frames_with`) | none | visit every committed block in order | the same directory, without the lock |
| **Record run** (`pipeline.rs`: `consume_live`, `recover_owned_archives`, `publish_status`) | the root's `record.lock`, one directory per run, `partial.json` / `complete.json` | start a run, recover older runs, consume a row or a clean EOF, publish the outcome | LiveProducer (bounded channel), Validator, BlockBuilder, ArchiveWriter |
| **Validator** (`pipeline.rs` 159-279) | previous counters per process, quality boundaries, baseline capacity | accept or reject a row, decide a block boundary | BlockBuilder |
| **BlockBuilder / encoder** (`pipeline.rs`, `model.rs`, `wire.rs`) | rows of the open block, raw segments | push, cut, encode, decode | ArchiveWriter |
| **Transform, serial and bulk** (`pipeline.rs`, `pipeline_bulk.rs`, `source.rs`) | open source streams, worker threads, their result order | plan, decode in parallel, commit in order | ArchiveWriter |
| **LiveProducer** (`recording_native.rs`) | sampling deadline, `PendingGap` of dropped rows, channel of one message | observe, send or count a gap, final gap | Record run |
| **Command line** (`cli.rs`) | none | `record`, `transform`, `inspect --recover`, `bench` | all of the above |

### pane-load worker (`src/main.rs`)

| Component | State it keeps | Operations | Talks to |
|---|---|---|---|
| **Lifecycle** (`start`, `stop`, `worker`) | `sampler.lock` (flock), `status.json`, control socket, SIGTERM flag | start, readiness poll, stop, kill | the other instances of itself |
| **Worker loop** (`run`, `reconnect_snapshot`, `sample`, `handle_control`) | snapshot of panes and workspaces, `last_sent`, due times | poll events, snapshot, sample, reconnect, plugin check | Herdr's socket API |
| **Marker overlay** (`report_aghist_title`, `clear_aghist_title`) | `aghist_panes`, titles with a time to live | set, refresh, clear | Herdr, aghist through Herdr |
| **CPU tracker** | counters of the last sample per process identity | delta per process | libproc |

### The rest

pane-navigator (Rust, one shot), jpg-preview (Rust, one shot), agent-history
and the Python prototypes of the recorder, the Herdr shell helpers, the git
notes scripts, the Neovim Lua configuration and its vimscript predecessor, the
tmux and ghostty scripts, the hammerspoon scripts, and configuration files.  PROJECT.json
lists each with the reason it is or is not modelled.

### What is hard

- **Crashes between two system calls.**  An append writes a journal, may create
  it, may publish a frame, replaces a manifest and unlinks the journal; a power
  loss may come anywhere in between and may undo what was not synced.
- **Partial failure.**  A call that fails half way leaves files that a later
  call, or a later process, must understand.
- **Limits.**  A byte limit, a frame limit and a manifest limit are checked at
  different places, before the data they guard exists, against a byte count
  that is cached.
- **Several processes.**  Starts, stops and workers meet at a lock, a status
  file and a socket; a run's recovery meets the leftovers of every earlier run.
- **Ordering and loss.**  Rows dropped while the channel is full must come out
  as gaps; bulk results arrive out of order and must be committed in order;
  metadata with a time to live expires behind the sender's back.

PROJECT.json's `hazards` names each at its line, with the properties that would
catch it going wrong, or why none does.

## 2. Modules

In the order of what a mistake costs: losing recorded history first, then
wrong or misleading history, then the live display.

| Modules | Model | Section |
|---|---|---|
| `DurableLog` | what the archive promises: accepted blocks come back in order, once; only unacknowledged ones at the end may be lost | 3 |
| `ArchiveStore`, `MCArchiveStore`, `ArchiveStore_proofs` | ArchiveWriter, one system call at a time, over a directory with power losses; implements DurableLog | 3 |
| `WorkerLifecycle`, `MCWorkerLifecycle`, `WorkerLifecycle_proofs` | starters, stoppers and workers around the lock, the status file and the control socket | 4 |
| `RecordRun`, `MCRecordRun`, `RecordRun_proofs` | run directories, their statuses, recovery of older runs, an inspection beside a recorder | 5 |
| `LiveProducer`, `MCLiveProducer`, `LiveProducer_proofs` | the sampling thread, the bounded channel and the encoder thread | 6 |
| `Validator`, `LiveReplay`, `FrameSeal`, `MCLiveReplay`, `MCLiveReplay_proofs` | acceptance of rows, live and replayed; blocks, frames and raw segments | 7 |
| `Transform`, `MCTransform`, `Transform_proofs` | import of source files, serially and by parallel workers; uses `Validator` | 8 |
| `MetaCodec`, `Lists`, `CpuTrack`, `TemporalTrack`, `MemoryColumns`, `BlockRows`, `MCFormats`, `Formats_proofs` | the four sections of a block, encoder and decoder | 9 |
| `WorkerLoop`, `MCWorkerLoop`, `WorkerLoop_proofs` | the loop of a worker against Herdr: events, snapshots, samples, marker titles, reconnects | 10 |

The modules meet at these places.  `ArchiveStore` says what becomes of an
appended block; `RecordRun` takes that as rows that are kept, some of them
framed.  `LiveProducer` delivers the rows and gaps that `LiveReplay` validates
and `FrameSeal` packs.  `Transform` uses the operators of `Validator` as
`LiveReplay` does.  `BlocksEncodable` of `LiveReplay`
is why `BlockRows` need only encode blocks whose totals rise.  `WorkerLifecycle` has one label, `run`, for
all of `WorkerLoop`.

What would come next: the order of file reads inside one visit of an
archive, and the envelope of a block with damaged input.

## 3. ArchiveStore

### Correspondence

A **block** is an id and a value; the value is the number of the append call
that offered it and stands for the bytes and digests.  A **frame** is the set
of its blocks; the set of ids is its file name.  The directory is the record
`dir`: metadata present or not, frames and their bytes, the frames the
manifest lists and its bytes, the journal (the append that created it, its
readable records, whether its end is torn, its bytes), and the bytes of
temporary files.

`pc` names the next system call of the process that holds `writer.lock`, and
`task` the public operation it belongs to.  A label lasts until the next call
whose effect another process, a failure or a power loss can see:

| Code | Actions |
|---|---|
| `open` | `AcquireLock`, `RemoveTemps`, `WriteMetadata`, `RenameMetadata`, `SyncMetadata`, `LoadCatalog`, then `rebuild_manifest` and `recover_journal` |
| `rebuild_manifest`, `atomic_replace` | `ManifestCurrent`, or `WriteManifest`, `RenameManifest`, `SyncManifest` |
| `recover_journal` | `NothingToRecover`, `DiscardJournal`, `RecoverPending`, `FinishRecovery` |
| `publish_blocks` | `WriteFrame`, `RenameFrame`, `SyncFrame`, `rebuild_manifest`, `UnlinkJournal`, and the caller's return: `ResumeAppend`, `ReturnSealed`, `ReturnFlushed`, `ReturnFinished`, `FinishRecovery` |
| `append` | `BeginAppend`, `RefuseAppend`, `WriteJournal`, `SyncJournal`, or `SyncNewJournal` and `SyncJournalDir` |
| `flush_frame`, `finish` | `Flush` |
| an error | `Refuse` (a check), `StorageError`, `AppendError`, `JournalError` (a call); `open` and `finish` give the writer up, `append` and `flush_frame` leave it `poisoned` |
| the process ends | `Drop`, `Kill`, `PowerLoss` |

**Power loss.**  `crashDirs` is the set of directories a power loss may leave.
Every change (`Change`) adds the new directory to it and `SyncDirectory` makes
the names of the present one durable: directory changes reach the disk in the
order they were made, and any number of the last ones may be missing.  This is
the ordered-metadata behaviour of journaling file systems.  File contents are
synced before a name is published, so a file that exists is whole, except for
the journal, which is extended in place: `WriteJournal` adds every torn prefix,
and only `sync_all` on the journal's file (`SyncJournalFile`) makes its contents
durable, in every directory that names this journal (`born` distinguishes a
journal from an earlier one of the same name).  What the journal may hold after
a power loss therefore outlasts a change or a sync of the directory: `Written`
carries it over.

**Abstractions.**
- Free space on the disk is not state: that the reserve is gone is one of the
  causes of `StorageError` and `AppendError`.
- Another opener fails at the lock, changes nothing and is not modelled; the
  lock of a dead process is free.
- The three removals of temporary files are one step: nothing can tell.
- A frame compresses to any of `FrameSizes` bytes; a manifest takes
  `ManifestHead` and `ManifestEntry` per frame.  The digits by which the size
  of an entry varies are left out.
- `preflight_pending_manifest` skips its check while the manifest is far from
  its limit; the model makes the check every time, with the same outcome.
- A `u64` id does not overflow within any run, so that refusal is left out, as
  is the refusal of an empty or oversized block, which changes nothing, and of
  a foreign archive (wrong context, owner or link count).
- `MAX_JOURNAL_BYTES` exceeds what one frame's blocks can take, so the journal
  is never cut by it.
- The branch of `publish_blocks` for a frame whose name already exists is not
  modelled; `PublishesFreshFrame` shows it is never reached.

### Properties

| Property | What it says of the code |
|---|---|
| `TypeOK` | with content in one conjunct: no byte or id counter goes below zero |
| `AckedSurvives` | whatever a power loss leaves at any instant, a reopen finds every block whose append returned Ok and every block waiting in the active frame or being published from it |
| `Reopenable` | whatever a power loss leaves, no check of `open` but a byte limit can refuse it |
| `PublishesSafely` | `PublishesFreshFrame`: the writer's catalog is the directory's, and what it publishes continues it; `ManifestBehindFrames`: the manifest never lists a frame a power loss may remove; `ManifestRoomReserved`: a published frame's manifest is never refused |
| `UsageExact` | the cached `usage_bytes` is what `directory_bytes` would measure |
| `WithinLimit` | files, temporary ones included, never exceed `max_bytes`, not even after a power loss |
| `ImplementsDurableLog` | refinement of `DurableLog`: blocks come back in the order of their appends, each once, never fewer than were acknowledged; and `LostOnlyInPowerLoss`: no step but a power loss - no failed call, kill, reopen, recovery or publication - takes away a block that a reopen would have returned, an unacknowledged one included |
| `EventuallyFramed` | liveness: acknowledged blocks end up in immutable frames |

### Runs and bounds

| Run | Question | Bounds |
|---|---|---|
| `archive_crash` | do failures, kills and power losses between any two calls lose an acknowledged block?  Is the archive a durable log, and every acknowledged block framed in the end?  (Faults are bounded, so they stop.) | 4 appends, 3 faults, frames of at most 2 blocks or 3 bytes, blocks of 1 or 2 bytes, at most 3 frames (a fourth is refused when single blocks are flushed).  Two faults suffice for a crash during the recovery of a crash; the third strikes the recovery of that.  Four appends fill two frames, so a journal is unlinked and created again |
| `archive_limits` | do the byte and manifest limits hold, does what was accepted still fit, and does the archive open whatever happened? | 12 bytes, a manifest of at most 2 entries, 5 appends, 2 faults: both limits refuse appends and publications.  The frame limit is not reached before the manifest's; it binds in `archive_crash` |

**Fairness.**  `Spec` gives weak fairness to the steps of an operation that
has begun: the writer is one thread that runs.  `LiveSpec` adds that a closed
archive is reopened, that a poisoned writer is dropped, and that a tail is
flushed in the end; the recorder does so through its startup recovery
(`recover_owned_archives`), by giving up a run on an error, and by its one-hour
frame age and orderly shutdown.

An accepted block can leave an archive that does not open under the same byte
limit: it was journalled within the limit, but its frame and manifest are not.
The code knows (`inspect --recover` opens with an unlimited store), so
`Reopenable` leaves the byte limit out.

### Proofs

`ArchiveStore_proofs` proves, for every value of the constants that satisfies
`StoreAssumption`, with no bound on attempts or faults,

| Theorem | Statement |
|---|---|
| `Invariance` | `Spec => []IInv` |
| `TypeCorrect` | `Spec => []TypeOK` |
| `Durability` | `Spec => []AckedSurvives` |
| `AccountIsExact` | `Spec => []UsageExact` |
| `CapacityHolds` | `Spec => []WithinLimit` |

None of the properties is inductive.  `AckedSurvives` speaks of what a reopen
returns; the invariant says why: every directory a power loss may leave is
`Safe` - its frames hold the blocks 0, 1, ... without a gap, its journal's
records are in the frames or follow them without a gap, and the promised blocks
are in one or the other (`SafeRecovers` derives the property).  To keep that
through a publication it must be known that the journal's blocks are among
those of the frame before the journal is unlinked (`PublicationCovers`), that
the journal holds exactly the active frame between operations
(`JournalIsActive`), that a directory that names the present journal differs from
`dir` in that journal's contents only (`Appending`), that `dir` with the
contents any of them gives its journal may be left too, and never more of it
than was written (`InPlace`), and that the block whose
append waits for its frame is in that frame (`Sealing`).  What a change and a
sync of the directory do to `crashDirs` is stated once (`Changes`, `Syncs`,
`Unlinks`, `Tears`): each directory that a power loss may leave after the step
was possible before, or is kin (`Kin`) to one that was, the same but for the
change.  `Account` follows the
byte count through every intermediate state, and `WithinLimit` then follows from the
checks.  Each conjunct has a lemma with one case per group of actions;
operations that give up (`GivingUp`) and torn journal writes are separate.  The
invariant was checked with TLC, under the constants of both runs, before
it was proved.

The second part of the module goes on from there, under the same assumption:

| Theorem | Statement |
|---|---|
| `ReopenInvariance` | `Spec => [](IInv /\ PInv)` |
| `AlwaysReopens` | `Spec => []Reopenable` |
| `AlwaysPublishesSafely` | `Spec => []PublishesSafely` |

A directory that `Safe` accepts may still be refused by `open`: `PInv` adds
that every directory a power loss may leave is `Openable`.  The metadata is
there before anything else; the manifest lists only frames that are there; the
frames hold different blocks and are within their limit; the journal is a run
of consecutive ids; and if the journal is ahead of the frames, there is room
for one more frame and its manifest entry, because `append` looks for that room
before it starts a journal.  For a publication it adds that the batch is never
empty and continues the catalog (`BatchFits`) and that what
`preflight_publication` found free stays free until the manifest is written
(`RoomKept`).  These too were checked with TLC under the constants of both runs
before they were proved.

and then proves the refinement:

| Theorem | Statement |
|---|---|
| `RefinementInvariance` | `Spec => [](IInv /\ PInv /\ RInv)` |
| `ArchiveIsDurableLog` | `Spec => ImplementsDurableLog` |

The log is `InOrder(Recoverable(dir))`.  By `Safe`, a reopen returns the whole
`Content` of a directory, frames and journal, with the ids 0, 1, ...; so the
log is a sequence (`LogOf`), one more block extends it at its end
(`LogExtends`) and fewer blocks are a beginning of it (`LogPrefix`).  `RInv` adds what
the steps need: a power loss only takes blocks away (`OnlyTakes`), which is why
recovery may publish only what the directory has (`RecoversOwn`); ids are
not used twice and a block about to be written is newer than all that are there
(`Numbered`); and one acknowledged block is the last (`LastAcked`).  The journal
write is then `Accept`, the return of an append `Promise`,
a power loss `Lose`, and every other call, the retirement of a journal
included, leaves the log as it is.  `KeptStep` shows that only a power loss is a
step after which a reopen returns less: a change that leaves frames and journal
alone keeps `Content`, a journal write adds to it, and where the journal is
removed or discarded its blocks are in the frames.  Checked with TLC first, as the others.

Only model-checked: `EventuallyFramed`, which is liveness under fairness and so
beyond the prover.

## 4. WorkerLifecycle

### Correspondence

Every process of `pane-load` that belongs to one Herdr server and is a
`start`, a `stop` or a `worker`.  A starter is one call of `start`, a stopper
one call of `stop`, a worker bears the name of its starter and a process id,
which may be that of a process that is gone.  `startPc`, `workerPc` and
`stopPc` name what each does next; one action is one file operation, one step
of a connection, or one wait.

| Code | Actions |
|---|---|
| `start` (main.rs:2241) | `TakeLock`, `LockBusy`; `StartRemovesStatus`, `StartRemovesControl`; `Spawn`; `PollStatus`, `PollControl`; `GiveUpOnWorker`, `Reap`, `StartUndoesStatus`, `StartUndoesControl`; `StartFails` |
| `worker`, `setup_control`, `write_status` | `Boot`, `SetupRemovesStatus`, `SetupRemovesControl`, `Bind`, `PublishStatus`; `BootFails` |
| `reconnect_snapshot` | `Connect`, `AttemptFails`, `Wake`, `GiveUpOnHerdr` |
| `run` | `LoseHerdr`, `LeaveLoop`, `RequestFails`, `WorkerGivesUp` |
| `handle_control` | `Accept`, `ReadStop`, `ReadNothing`, `DropConn` |
| `close` | `CloseListener`, `CloseRemovesStatus`, `CloseRemovesControl` |
| `stop` | `StopTakesLock`, `StopClearsStatus`, `StopClearsControl`; `StopFindsWorker`, `ReadStatus`, `ConnectControl`, `ConnectRefused`, `SendStop`, `SendFails`, `ReadAnswer`, `ReadFails`, `SeeExit`, `WaitTimesOut` |
| Herdr (herdr-plugin.toml) | `HerdrStarts`, `StartAction`, `HerdrStops` |
| the operating system | `KillStarter`, `KillWorker`, `KillStopper` |

**The lock is not a variable.**  `flock` belongs to the open file description;
the worker inherits the starter's descriptor (main.rs:2287) and keeps it until
it exits (main.rs:1893).  So the lock is free exactly when no starter past
`TakeLock`, no living worker and no cleaning stopper has it open: `LockFree`.

**How long the lock is held** decides between `TakeLock` and `LockBusy`: a
start waits one second.  `LongStates` is the set of labels a holder may be at
for longer than that.  The runs that must pass let it be every label, so no
property depends on timing.  The run of the finding lets it be only the main
loop and the sleep after a failed attempt (up to two seconds), so that its
counterexample is one the code's constants make.

**Abstractions.**
- Polls that see nothing are merged with the one that sees something.
  `GiveUpOnWorker` and `WaitTimesOut` may come at any time: how long 100 polls
  or five seconds take is not modelled.
- `ReadFails` and `ReadNothing` stand for time-outs, so they too may come at
  any time before the answer.  That the peer closed the connection counts as an
  answer, as it does in the code (main.rs:2410 looks only for errors).
- A stop that gave up may leave its message behind; the worker may read it
  later.
- `kill(pid, 0)` succeeds for a child that is dead and not waited for
  (`Zombie`).  A stranger that has the id of a dead worker makes `stop` time
  out, which `WaitTimesOut` allows anyway.
- The errors `close` ignores, of two removals, are ignored too: a removal
  succeeds.
- Failures of `start` or `stop` before they touch the lock change nothing.
- What happens between two looks at the stop flags in the main loop is the
  label `run`; it is the subject of WorkerLoop.

### Properties

| Property | What it says of the code |
|---|---|
| `TypeOK` | with content in one conjunct: never more than `MAX_RECONNECTS` failed attempts |
| `ServingOwnsFiles` | the status and the socket are those of the one worker that serves, until it closes |
| `NothingLeftBehind` | when nobody holds the lock no file is left, unless a process was killed |
| `StoppedIsGone` | `stop` that returns 0 after reading a status tells the truth about that worker |
| `StartedHasServed` | `start` that says ready tells the truth about its worker |
| `EverybodyReturns` | `AskedExits`: a worker asked to stop, by message or by SIGTERM, exits; `StartReturns`: `start` returns, though `child.wait()` has no limit; `ExitsWithoutHerdr`: without a server no worker stays |
| `StartupLaunchesWorker` | (violated) after a startup hook that succeeded there is a worker |

### Runs and bounds

| Run | Question | Bounds |
|---|---|---|
| `lifecycle_stop` | is what `stop` reports true, and is everything tidy? | 2 starts, 1 stop with 2 tries, 1 kill, 1 error |
| `lifecycle_live` | does everybody finish? | 2 starts, 1 stop, 2 attempts to reconnect, 2 outages.  No symmetry: it is not sound for liveness |
| `lifecycle_startup` | finding | 2 starts, `MAX_RECONNECTS` as in the code, 1 outage, no errors or kills |

One stopper is enough for the files, since stoppers exclude each other like
starters do and the proofs cover any number.  Deadlock is not checked: when
all calls have returned the system rests.

**Fairness.**  Weak fairness of every process's steps: each runs, and every
wait of the code has a limit, or is for a child.  Herdr's actions, errors,
kills and outages are not fair.  A server that comes and goes forever is
excluded by `MaxOutages`, not by fairness; `ExitsWithoutHerdr` speaks of the
time after the last outage.  That `handle_control` is reached although the
event connection fails after each successful reconnect is not shown here: a
failed request is an error, and errors are bounded (see `hazards`).

### Finding

`lifecycle_startup`: the server is down and the worker has made its eighth and
last attempt.  It sleeps for two more seconds (main.rs:1757), with the lock,
then exits without another attempt.  The server comes up in the first of these
seconds; its startup hook waits one second for the lock (main.rs:2269), takes
it that another worker is running, and returns 0.  The worker exits.  The server has
no worker until somebody runs the start action; pane-load's README.md:140 says
that a subsequent startup launches one.

### Proofs

`WorkerLifecycle_proofs` proves, for any sets of starters, stoppers and
process ids and any bounds that satisfy `LifecycleAssumption`,

| Theorem | Statement |
|---|---|
| `LifecycleInvariance` | `Spec => []IInv` |
| `LifecycleTypes` | `Spec => []TypeOK` |
| `ServingWorkerOwnsFiles` | `Spec => []ServingOwnsFiles` |
| `OneWorkerServes` | at most one worker serves |
| `StopReportsTheEnd` | `Spec => []StoppedIsGone` |
| `StartReportsItsWorker` | `Spec => []StartedHasServed` |
| `FreeLockMeansTidy` | `Spec => []NothingLeftBehind` |

`ServingOwnsFiles` says nothing of who else may write, so it is not inductive.
The invariant adds that the lock is held through one descriptor
(`OneDescriptor`), that a starter that has not spawned has no worker and one
that cleans up has reaped it (`Family`), and what the files are at each label
of the starter (`StarterFiles`) and of its worker (`WorkerFiles`).
`ServedHistory` - the status names the last worker that served, all earlier
ones are gone - is why `wait_for_pid_exit` may take another worker's status for
the end of its own.  `Tidy` and `StopKnows` are the properties, in the form a
step keeps.  Each conjunct has a lemma of its own.  The invariant was checked
with TLC before it was proved.

Only model-checked: the three parts of `EverybodyReturns`, which are liveness.

## 5. RecordRun

### Correspondence

One recorder per run directory, all under one root, and one inspection beside
them.  `pc` names the next system call of each recorder; `crashDirs` is, for
each run directory, what a power loss may leave of it, as in ArchiveStore.
What the archive does inside is ArchiveStore's subject; here the data of a run
is the number of rows kept, of those framed, and their bytes.

| Code | Actions |
|---|---|
| `prepare_root`, `recover_owned_archives` (pipeline.rs) | `TakeLock`, `LockBusy`; `ScanOldRuns`, `RefuseOldRuns`; `RecoverArchive`, `WarnArchive` |
| `open_sink`, `archive_options_for_root` | `MakeRun`, `NoRoomForRun`; `OpenSink`, `NoRoomForSink` |
| `consume_live` | `TakeRow`, `RowFails`, `TakeEnd`; `AppendTail`, `TailFails`; `FinishSink`, `FinishFails` |
| `publish_status`, `remove_partial_status` | `WriteTemp`, `LinkStatus`, `UnlinkTemp` or `RenameStatus`, `SyncRun`, `RemovePartial`, `SyncClean`, `StatusFails` |
| `inspect` (cli.rs) | `Inspect`, `ReadPartial`, `ReadComplete`, `InspectRecovers`, `Visit` |
| the process ends | `Kill`, `PowerLoss` |

**Abstractions.**
- A status takes one unit and one more for each line of the recovery report it
  repeats, which is what makes its size differ.
- A run id is never used again; it contains a random part.
- The rows an inspection finds are read in one step, `Visit`, between the
  looks at the two statuses and the verdict.
- A raw run has no archive to recover, so `ScanOldRuns` leaves it out.

### Properties

| Property | What it says of the code |
|---|---|
| `TypeOK` | with content: an active recorder is the one that has the lock, rows framed are among those kept and those among the rows taken, and the root stays within its limit (`RootWithinLimit`, with its exceptions) |
| `StatusTrue` | whatever a power loss leaves, where there is a complete.json every row delivered is framed and no failed status stands beside it; data never lies without a status |
| `VerdictTrue` | an inspection that looks at the statuses of a run and does not call it incomplete has read all of it, though it reads status and data one after the other beside a recorder |
| `StartRecovers` | older runs stop a recorder only after a crash between the hard link and the unlink of a status, or for an oversized status; otherwise every older binary run is framed, or a warning was reported for it |
| `RecorderEnds` | liveness: whatever fails, a recorder gives the lock back |

Of a root without a binary archive `inspect` reads every raw segment and looks
beside none of them (`archive_paths` and `partial_recording_error` of cli.rs),
so `VerdictTrue` is about the inspections that look: of a run, and of a root's
binary archives.

The exceptions of `RootWithinLimit` are what the code does, found by the
checker: an inspection recovers without a limit; a status can outgrow its
reserve, because the recovery report in it has no bound; and a power loss after
a failed sync of the directory brings back names that were given up.

### Run and bounds

`record`: a binary and a raw recorder and an inspection of a run or of the
root, with limits of 6 and 4 units so that a
root is full for one and not for the other, one row each, a reserve of two
units so that one recovery line fits and two do not, and two faults: the
second strikes the recovery from the first.  Deadlock is not checked: when all
recorders have returned the system rests.

**Fairness.**  Weak fairness of each recorder's steps.  A producer ends in the
end (LiveProducer's `StopEndsRun`), so `TakeEnd` is among them.  Inspections,
kills and power losses are not fair.

### Proofs

`RecordRun_proofs` proves, for any number of binary and raw recorders and of
inspections, any limits, rows, growth and faults that `RunAssumption` allows,

| Theorem | Statement |
|---|---|
| `AlwaysRInv` | `Spec => []RInv` |
| `AlwaysStatusTrue` | `Spec => []StatusTrue` |
| `AlwaysVerdictTrue` | `Spec => []VerdictTrue` |
| `AlwaysStartRecovers` | `Spec => []StartRecovers` |
| `AlwaysWithinLimit` | `Spec => []TypeOK` |

The first three properties speak of what has been published; `RInv` adds how far the
recorder is with it.  `StatusAt` and `Outcome` tell, for each step, which status
is next and what is known of the rows by then; `StatusThere`, that a step which
relies on a published status finds it.  `Names` says of every directory a power
loss may leave that it holds no outcome but the one the recorder has decided on:
with it, `PowerLoss` is a choice among directories of which everything is known.
`Locked` is the recorder's exclusion, from which `Recovered` follows: while one
recorder works, no other adds rows outside the frames, so an older run that
has such rows is still in `todo` or was warned about.  `Inspected` says what an
inspection knows between its reads: once it has found no partial.json, or a
complete.json, the outcome is decided, and a decided completion is final.  `RInv` was
checked with TLC, under the constants of the run, before it was proved.

`TypeOK` holds more than types: `RootWithinLimit` bounds a sum over all runs, of
which there are finitely many.  A recorder measures the root while it starts and then
relies on what it measured: on the first status fitting (`StatusFits`), on
the sink keeping to its allotment with the reserve for the outcome beside it
(`SinkFits`), and on nobody else writing, which is `Locked`.  `BInv` says so of
every instant.  Its part `Settled` is about power losses: only the directory of
a run whose status is being published may still change, so a first
power loss changes nothing but one status, and `StatusFits` counts what it
may bring back.  `FInv` adds that a run has no data before its sink is open and
that only runs with data are recovered, so that the room a recovery frees is never
counted twice.  What the code lets exceed the limit (`Excused`: a recovery by an
inspection, a status longer than its reserve, a second failure) is an exception of
the property, and once true stays true.

The sum is `MapThenSumSet`, a fold over a set.  Two facts about such sums are
proved by induction on the size of the set: where no summand is greater the
sum is not (`SumsRise`), and one changed summand changes the sum by as much
(`SumsMove`).  `BInv` and `FInv` too were checked with TLC before they were proved.

Only model-checked: `RecorderEnds`, which is liveness.

## 6. LiveProducer

### Correspondence

The sampling thread (`pc`), the bounded channel (`log`, of which the last
`unread` messages are in the channel) and the encoder thread as far as the channel goes (`encoder`).
`now` is `Instant`, on which deadlines are kept and which stands still while the
machine sleeps; rows are stamped with `now + slept`.

| Code (recording_native.rs) | Actions |
|---|---|
| `observe` | `Top` (deadlines missed, duration and stop), `Wait`, `Scan`, `ScanFails`; `Accepted`, `Dropped`, `Disconnected` for the three results of `try_send`; `Trailing`, `SendFinal`, `SendEnd` |
| `PendingGap` | `RecordRange`, `RecordScheduled`, `RecordScan`, `Quality`, `Attached`, `FinalRow`, `AfterFinal` |
| `missed_deadlines` | `MissedAt` |
| `run_macos` | `Join`, `Receive`, `EncoderFails`, `EncoderReturns` |
| time and signals | `Tick`, `Sleep`, `RequestStop` |

A scan takes any time that passes between its two labels.  What is in a row is
its sequence number, its stamps and from when its peak counts.

### Properties

| Property | What it says of the code |
|---|---|
| `GapsTrue` | `GapExact`: between two messages the numbers dropped or missed are exactly those of the gap that goes with the later; `GapInPlace`: its times lie between theirs |
| `NothingUnmarked` | `JumpMarked`: two rows further apart than twice the interval are marked, also when the machine slept and the row that saw it was dropped; `PeakCovers`: a row's peak covers the time since the row before it |
| `OkMeansAll` | `run_macos` returns Ok only if the encoder took every message and the last was an orderly End |
| `ScheduleKept` | rows, drops and misses together are the deadlines up to the end, and no row is early |
| `StopEndsRun` | liveness: a stop ends both threads; no send waits for an encoder that is gone |

### Run and bounds

`producer`: interval 1, a duration of 4 intervals, a channel of one message as
in the code, one sleep of two intervals at any time, one failure.  Four
deadlines are enough for a gap with a row on both sides, a gap inside a gap's
row, and a final gap.  Deadlock is checked: only a run that has returned has
no step left, and stutters.

**Fairness.**  Weak fairness of both threads and of time.  `RequestStop` is
fair too: it stands for the end of `--duration` or a signal, and bounds the
clock.

### Proofs

`LiveProducer_proofs` proves, for every interval, channel, duration, number of
sleeps and failures that the assumption of `LiveProducer` allows,

| Theorem | Statement |
|---|---|
| `ProducerInvariance` | `Spec => []PInv` |
| `AlwaysGapsTrue` | `Spec => []GapsTrue` |
| `AlwaysNothingUnmarked` | `Spec => []NothingUnmarked` |
| `AlwaysOkMeansAll` | `Spec => []OkMeansAll` |
| `AlwaysScheduleKept` | `Spec => []ScheduleKept` |
| `AlwaysTypeOK` | `Spec => []TypeOK`: the channel never holds more than its capacity |

The properties speak of messages that were sent; `PInv` says what is pending
between two of them.  `Pending`: the next number is that of the last message,
plus one for every number in the gap, plus one while a row is in hand, and the
gap's times lie between the last message and now.  `RowInHand`: that row comes
after the gap, and `Marked`: measured against the last message sent, not
against the last row scanned, it says of the time between what there is to
say.  `FinalDivides`: the last row that was dropped lies inside the gap, and
`finalPrior` and `finalAfter` are the times at which it divides the gap in two.
`EndIsLast`: nothing follows an End.  All but the last hold only while `Open`:
once the encoder has gone, what is pending is never sent, and the code lets it
be inconsistent.  `PInv` was checked with TLC, under the constants of the run,
before it was proved.

`AlwaysScheduleKept` has an invariant of its own, `SchedInv`: the next deadline
is `Interval` times the next number, or times the number in hand while a row is
sent; the last number given was due when the thread looked, and a dropped row
kept for the final gap was not early.  When sampling ends, the last number was
due and the next is not, and with the order of the multiples of the interval
(`MultipleOrder`, `CountedWhole`) the numbers given are exactly the deadlines that were due.

Only model-checked: `StopEndsRun`, which is liveness.

## 7. Validator, LiveReplay, FrameSeal

### Correspondence

| Code (pipeline.rs) | Definitions |
|---|---|
| `Validator::validate`, its retention and its limits | `Validator`: `Accepts`, `Expire`, `Validated` and their helpers |
| `BlockBuilder::should_cut`; `validate_rows`, `encode_csh2` of wire.rs as far as they refuse | `ShouldCut`, `Encodable`, `TotalsRise` |
| `consume_live` on a row, `transform_sources` on what it wrote | `LiveReplay`: `Row`, `Refuse` |
| `append_binary_bytes`, `ArchiveWriter::append`'s size limits | `FrameSeal`: `BinaryBlock`, `Finish` |
| `RawSegments::write_block` | `RawBlock` |

One action takes a row through the live recording and its later transform:
the transform sees the same rows in the same order.  A row is its number, its
stamp, the processes in scan order with their counters, and its quality
events.  `MCLiveReplay` puts `FrameSeal` beside `LiveReplay`; one of the two
moves in a behaviour.

### Properties

| Property | What it says of the code |
|---|---|
| `ReplayAgrees` | the transform of a raw recording reports what the live recorder reported (a counter it had forgotten is not a regression in replay) and, with room for every process, cuts the blocks where it did |
| `BlocksEncodable` | neither recorder hands the encoder a block it refuses: no counter goes down unannounced, and with room for every process no total goes down inside a block |
| `DropReported` | whenever a counter is lower than when the process was last seen, however long ago, the row says so |
| `RowsBounded` | the live validator's state stays within its limit and its grace; a block covers less than the block age |
| `FramesBounded` | a binary frame covers less than an hour and a block, a raw segment less than an hour but for its last block; what a kill leaves open covers less than an hour; a frame of several blocks fits `--frame-bytes` |
| `NoHiddenDrop` | (violated) the bounded state never hides a counter that goes down inside a block |

### Runs and bounds

`replay`: two processes with two counters of two values, room for one or for
both, three rows at distances below and at the grace and the check interval; blocks of two rows; frames
of three blocks or four bytes, blocks of one or three bytes, pauses below, at
and above the frame age.  `replay_encode`: the same rows with room for one
process.  Both stop at their bounds, so deadlock is not checked.

### Finding

`replay_encode`: the comment at pipeline.rs:248 says that the bounded state
must never hide a counter decrease inside a delta block.  With
`MAX_LIVE_IDENTITIES` processes tracked, a further one is reported as without
room, which begins a block.  A row later another process has been forgotten,
the new one is tracked, and that begins no block.  If its counter is lower than
in the row before, the block has a total that goes down; `encode_csh2` refuses
it ("CPU total regressed") and the recording fails.

### Proofs

`MCLiveReplay_proofs` proves, for any finite sets of processes and counters,
any limits, distances between rows, sizes and ages,

| Theorem | Statement |
|---|---|
| `AlwaysReplayAgrees` | `MCSpec => []ReplayAgrees` |
| `AlwaysBlocksEncodable` | `MCSpec => []BlocksEncodable` |
| `AlwaysRowsBounded` | `MCSpec => []RowsBounded` |
| `DropsReported` | `MCSpec => []DropReported` |
| `AlwaysFramesBounded` | `MCSpec => []FramesBounded` |

The assumptions are that the ages, counts and sizes are positive, and
`BlockAge <= Grace`: both are 30 seconds (pipeline.rs:28-29), and a block that
outlives the grace may hold a process the live validator has forgotten.

`FrameInv` adds one fact to `FramesBounded`: when the open frame began
(`OpenKnown`).  `RowInv` relates the memories of the two validators.  What the
live one remembers replay remembers too, with the same counters, and it was
the last to be seen (`KnownAlike`); nothing remembered is from the future
(`Clocked`), and the look for forgotten processes is not late (`CheckedOften`).
Of every open block it says that it is within its limits of rows and age
(`BlockKept`); that what it holds of a process is not above what was seen last,
unless a later row of the block has an event about that process (`BlockSeen`);
and, with room for every process, that each of its processes is remembered,
with counters at least as high (`BlockTracked`): the block is younger than the
grace, so none of it has been forgotten.  From these a row that is lower than
one of its block is noticed and begins a block.

A validator walks over the processes of a row with `FoldLeft`.  `FoldLeft` is a
function chosen for its equation, so what a walk preserves is proved by
induction over the set of lengths for which it holds (`Induction`, from the
well-foundedness of the naturals), for each of the walks used here.
`RowInv` and `FrameInv` were checked with TLC before they were proved.

Only model-checked: that `NoHiddenDrop` fails.

## 8. Transform

### Correspondence

| Code | Actions |
|---|---|
| `transform_sources_impl` (pipeline.rs): hash, rows, second hash and list entry of each source | `HashSource`, `ReadRows`, `ConfirmSource`, over `SerialRow`, `EndSource` |
| the tail, written also after a failure | `AppendTail`, `TailFails`, `SerialDone` |
| `summarize_source`, `build_plan` (pipeline_bulk.rs) | `Work` with `Summary`, `FoldBatch` over `Fold`, `JoinGroup`, `Touch` |
| `replay_group`, `encode_group` | `Work` with `Encoded`, over `Replayed`, `ReplaySource` |
| the scoped threads of a batch and their cancel flag | `Work`, `SpawnFails`, `JoinBatch`, `Cause` |
| `run_bulk_transform_with_group_limit`: commits in order | `OpenFails`, `CommitGroup`, `NextBatch`; `StreamGroup` for a single group |
| `commit_group_stats`, and a failed append or ledger line in the middle of a group | `CommitGroup`, `CommitFails` |
| `finish_sink`, status of the output | `FinishFails`, `FinishArchive`, `Publish` |
| the world | `Change`: somebody cuts a source file short |

A source is its context and its rows; `plan` is what pass one leaves, with what
it read of every source.  The rows go through the operators of `Validator`,
unbounded.  A worker's work is one step, at which it reads its files as they
then are; that other workers do theirs before, after or not at all is the
interleaving.  The serial transform takes three steps for a source, and the file
may change between any two: what is hashed, read and hashed again need not be
the same.  `seen` is what it has read, and `listed` has, for each source in
`source_hashes`, what was read of it to be encoded.

Calls that fail do so in the middle: after some rows of a source and the blocks
made of them (`ReadRows`), after some blocks of a group or some lines of the
checked ledger (`CommitFails`, also for a single group), or before the archive
is there (`OpenFails`).  Reading one source, or the sources of one group, is one
step; a change in the middle of that is a change before or after it.  Left out
is a serial `ArchiveWriter::open` that fails for a first source without rows
(pipeline.rs:1661): it returns at once and writes no failure marker.

### Properties

| Property | What it says of the code |
|---|---|
| `BulkIsSerial` | the archive of a bulk transform that ends well is block for block the serial one of what pass one read, and at every moment the archive holds a beginning of it |
| `RefusedForCause` | sources the serial transform accepts are only refused for a limit, a failure or a change, and the cause is reported, never the cancellation that followed |
| `CompleteIsWhole` | a complete import is of a run that ended well and lists all sources, each with what was read of it to be encoded: that is what the ledger says, in both modes, and what pass one read; the archive is what the serial transform makes of exactly that |

`CompleteIsWhole` compares what the serial transform read, or pass two encoded,
with the ledger: without the check after the rows (pipeline.rs:1640), or the
comparison of pass two with pass one (pipeline_bulk.rs:446), it is violated.
While a single group is written its blocks precede the checks of their sources,
so the beginning of `BulkIsSerial` is claimed there only if nothing changed.

`TypeOK`, with the limits on workers, results and retained seeds, is proved
below and no property of the run; the same holds for `TypeOK` of LiveProducer
and WorkerLoop.

### Run and bounds

`transform`: all ways to spread up to three rows over three files, with a
process that counts down, one that appears late, a denial of continuity and a
stamp that repeats; one, two or three groups and a file of another stream;
serially and with two workers; seeds of two entries and groups of one block, so that
both limits are met; one failure or change, where the proofs allow any number.
These are 1.7 million states.  Deadlock is checked: only `Done` may stop.

### Proofs

`Transform_proofs` proves, for any files, rows, contexts, numbers of workers
and limits that satisfy `TransformAssumption`, any schedule of the workers and
any number of failures and changes,

| Theorem | Statement |
|---|---|
| `AlwaysPlanned` | `Spec => []IInv` |
| `AlwaysBulkIsSerial` | `Spec => []BulkIsSerial` |
| `AlwaysRefusedForCause` | `Spec => []RefusedForCause` |
| `AlwaysCompleteIsWhole` | `Spec => []CompleteIsWhole` |
| `AlwaysWithinLimits` | `Spec => []TypeOK` |

Two parts of the assumption serve the proofs: the processes of a row are a
sequence, and a context is never the empty sequence, which stands for none.

The argument has two halves.  The first is about the operators.  A validator
that knows of the processes of a group what the serial one knows takes the same
rows and flags the same ones (`Alike`, `ValidatedAlike`); a replay that begins
at a group's seed, with no block open, follows the serial transform row by row
and differs only in the blocks that were written before (`Follows`,
`FollowsRow`).  What pass one finds out about a source, without knowing what
came before, decides whether the serial transform takes it, and describes what
it then remembers (`Summed`, `Taken`).  From these, folding one summary more
keeps what is true of a plan (`PlanTrue`, `FoldTrue`): its `global` is what the
serial transform remembers, every closed group replays to the blocks between
two points of the serial archive, and the seed of a group holds, of every
process the group touches, what was known at its beginning.

The second half is the invariant `IInv`, with one part for each phase.
`InputsTrue` says that a source that has changed is shorter than it was;
`ControlTrue` which error and status goes with which label; `SerialTrue` how
far the serial transform is: what it has written is what it makes of the sources
it lists, as it read them, and these are as claimed where there is a ledger
(`ListTrue`, `SeenTrue`, `BetweenTrue`, `WholeTrue`).  `PlanPhase` and `EncodePhase` say of the batch at
work that its jobs are those of consecutive sources or groups and that each
result is what the serial transform makes of them, or an error it deserves: an
order or stream error only if the serial transform refuses too, a cancellation
only after an error of another.  `CommitPhase` and `EndPhase` say that the
archive holds the blocks of the first groups and the list their sources, as pass
one read them; after a failure, that the archive holds a beginning.  What changes
while it is read makes the claims conditional: `Known` holds if a ledger was
checked or nothing changed.  The properties are not inductive without it: they
speak of the archive, and a wrong seed only shows a whole pass later.

The rows, processes, sources and results are walked over with `FoldLeft`; as in
section 7, what each walk computes is proved by induction over the set of
lengths for which it holds.  That is done for each walk separately, because a
lemma about all of them would have an operator as its parameter.  `IInv` was
checked with TLC, with the constants of the run but two rows, before it was
proved.

`AlwaysWithinLimits` says that no more results wait than there are workers, that
what the seeds of all groups retain stays within `MaxSeeds`, and that the list
of sources is a beginning of the sources.  Two things are added to `TypeOK` to
make it inductive (`Limits`): while pass one goes on, the seeds of the plan so
far fit too (`SeedsFit`), because they become those of the run in one step at
its end; and the sizes of the batch and of the list (`Sized`), which follow
from what `IInv` says of them.  A group is opened only if its seed still fits
(`OpenedFits`, `JoinFits`), and a fold that fails leaves the plan as it was.  A
seed is counted by its processes, and these are finitely many because a seed is
taken from what the summaries before it remember (`FewIds`, `FewRemembered`).
The strengthening was checked with TLC first, like `IInv`.

## 9. The block format

### Correspondence

| Code (wire.rs) | Module |
|---|---|
| `encode_psd1`, `decode_psd1` (metadata), `check_v2_decoded_budget`, `add_psd1_row_expansion` | `MetaCodec`: a state machine, one action per slot or new process of a row (`Missing`, `StaysAway`, `Unchanged`, `Update`, `New`), the encoder and the decoder in lockstep (`Receive`, `Refuses`) |
| the lists of numbers in all sections: members in order, first number and steps, stretches | `Lists` |
| `encode_csh1`, `encode_csh2`, `decode_csh1`, `decode_csh2` (CPU totals) | `CpuTrack`: encoder and decoder of one process's track as functions |
| `select_temporal_points`, `encode_csh2_temporal`, `decode_csh2_temporal` | `TemporalTrack` |
| `encode_pmm1`, `decode_pmm1` (memory) | `MemoryColumns` |
| `encode_block_with_memory` and the rows and tracks it makes of a block | `BlockRows` |

The bytes of a number, the order of the sections in the envelope, digests and
compression are left out: a section is the sequence of values it writes, and
what a decoder refuses is a guard.  Time is in milliseconds, totals in ticks of
the machine's clock.

### Properties

| Property | What it says of the code |
|---|---|
| `RowExact` | the decoder refuses nothing the encoder wrote, and its row is the encoder's, process for process, after entries, exits, returns and changes, of which only differences travelled |
| `BudgetCovers` | the decoder's estimate of the decoded size never exceeds the encoder's, so a block the encoder accepted is not refused for its size |
| `CpuWithinBound` | the decoder accepts what the encoder wrote; each decoded total is below the true one by at most the bound it states, the first and last of a block are exact, and the bound of the adaptive profile is an eighth of the use; on machines with any of the time bases |
| `TemporalTrue` | the decoder finds and accepts a track for every stretch without interruption; no sample is left out once a deadline since the last kept one is over, nor a change of name, and a process that gets busier is sampled before its new deadline, even if it must be the sample before |
| `MemoryExact` | whichever of the columns are chosen, the decoder takes the memory section, and owned, peak and evicted memory come back rounded to their unit, each, though a peak travels as an excess |

`BudgetCovers` is about the budget of the PST2 profiles, `check_v2_decoded_budget`;
the sizes the Legacy1ms profile (PST1) compares are not modelled.  In
`TemporalTrack` the name of a sample stands for all metadata that ends a stretch,
name and parent id (wire.rs:1926).

### Run and bounds

`formats` (`MCFormats`): metadata of two identities over three rows, with
three states of a process and rows at two distances; blocks of up to five rows
for the CPU sections, with rises on both sides of every threshold of the
quanta; three rows for the memory columns.  A behaviour checks one section.
It ends with its block, so deadlock is not checked.  `Top` (10 ^ 9) stands for
the largest number of 64 bits and `MaxPower` (2 ^ 29) for its highest power of
two; as in the code, eight times the one exceeds the other.

### Proofs

`Formats_proofs` proves, of the metadata for any identities, processes, sizes
and number of rows that satisfy `MetaCodecAssumption`, and of the memory and
the CPU totals for any unit, identities, rows, blocks of any length and time
bases that satisfy `BlockRowsAssumption` (processes in the order of their
identities with natural numbers in some of the three columns, totals that do
not fall and clocks that rise; a millisecond is no more than `MaxPower` ticks),

| Theorem | Statement |
|---|---|
| `AlwaysMirror` | `Spec => [](TypeOK /\ Mirror)` |
| `AlwaysTypeOK` | `Spec => []TypeOK` |
| `AlwaysRowExact` | `Spec => []RowExact` |
| `AlwaysBudgetCovers` | `Spec => []BudgetCovers` |
| `AlwaysMemoryExact` | `BlockSpec => []MemoryExact` |
| `AlwaysCpuWithinBound` | `BlockSpec => []CpuWithinBound` |
| `AlwaysTemporalTrue` | `BlockSpec => []TemporalTrue` |

`RowExact` speaks of a finished row; within a row the two tables differ.
`Mirror` says how: the decoder's table is the encoder's, no identity has two
slots, and the active slots agree as far as the row has been written.
`AlwaysBudgetCovers` adds the conjunct `Counted`: every identity the decoder
allocates is a process the encoder has counted, with its name.

The invariant under `MemoryExact`, `BlockInv`, says only that the processes of
every row are as the encoder expects them; the rest is about the two
functions.  `RowBack` is one row of one column: the positions come back from
their gaps (`PositionsOfGaps`), each value from the difference to what both
remember of the process, and a peak from the owned memory as the decoder has
it, which is the same number of units as the encoder's (`BaseSame`,
`WholeUnits`) because the owned column was decoded before it (`SelectedIs`).
`ColumnBack` is the induction over the rows, in which encoder and decoder
remember the same (`LockStep`), and `MemoryBack` the one over the columns.  As
in `Transform_proofs`, each walk over a sequence has its own lemmas.

The invariant under `CpuWithinBound`, `CountInv`, says that the totals of an
identity rise from row to row of the block and are at most what it has used.
The samples of a process are then a list of rising totals in rising rows
(`SamplesAre`), and the rest is about such lists.  A list is its first number
and its steps (`SumsOfDifferences`) and is cut into stretches that follow each
other without a gap (`StretchesAre`, `PartIs`, `PartOnly`).  `StartsBack` and
`SamplesBack` are the runs of a track: the decoder finds the totals at their
ends exactly, and inside each the total rounded down from its anchor, less
than a quantum away (`StoredClose`).  `TrackBack` puts the two together.  That
the decoder accepts the track has a part for the form of the runs
(`RunsTaken`) and a part for the totals it could stand for: the true counter
fits every range the decoder allows (`IntervalAllowed`), so the bounds it
carries from sample to sample always hold the counter and never cross
(`ReachHolds`, `RunsFit`).  `CoverageBack`, `QuotientsBack` and `LegacyBack` do
the same for CSH1.

`TemporalTrue` needs one invariant more, `TimeInv`: scans begin one after the
other, so no two samples have the same time.  Its proof has three parts.  The
first is what `Select` keeps.  The fold over the samples has an invariant of
two halves (`ChosenTo`): between two samples already kept nothing was to be
kept (`Trail`), and since the last of them no deadline is over and no name has
changed, with the shortest deadline in `pending` (`Waiting`).  `StepChosen`
goes through the branches of `SelectStep`.  The sample before is kept after the
fact just when the new deadline is shorter than all since the last kept one
and already over; in every other case `WaitingSkips` shows that waiting was
right, and for that it needs that no deadline is longer than `Longest`
(`DeadlineIs`), which `pending` starts from.  The second part is the track of
what is kept: it is a track like those above, with quanta scaled to the length
of an interval (`StorageFacts`), and the ranges the decoder scales back, rounded
up, still allow the true rise (`ScaledIs`).  The third part is that encoder and
decoder divide the rows alike: the encoder cuts its samples exactly where the
decoder expects no interval to end (`JoinsInside`, `JoinsHeld`), so each piece
is a longest stretch (`PieceSpan`), and a stretch with the first row of a piece
is that piece (`SpanOnly`).

## 10. WorkerLoop

### Correspondence

Herdr's panes with their marker, their usage and their marker title
(`overlay`); the event stream with the events not yet read; and the worker.
One action is one request to Herdr with its answer, or one event handled.

| Code (main.rs) | Actions |
|---|---|
| `reconnect_snapshot` | `Connect`, `ConnectFails`, `TakeSnapshot`, `SnapshotFails` |
| `snapshot` | `TakeSnapshot`, `AskInfo`, `Marks`, `NextMark`, `EndSnapshot` |
| `process_events` | `Poll`, `PollFails`, `HandleMarker`, `HandleLifecycle`, `EndPoll` |
| `sync_aghist_title`, `report_aghist_title`, `clear_aghist_title` | `SyncMarked`, `SyncUnmarked`, `SyncUnknown`, then `ReportTitle` or `ClearTitle`; `SyncLost` |
| `run`: what is due | `BeginSnapshot`, `BeginSample`, `NotDue` |
| `sample`, `report_workspace` | `SampleGone`, `SampleSame`, `SampleReport`, `SampleWorkspace`, `SampleLost`, `EndSample` |
| `plugin_enabled` | `PluginGone`, `PluginLost` |
| Herdr and its users | `OpenPane`, `ClosePane`, `SetMarker`, `DropMarker`, `OverlayExpires`, `Restart`, `DisablePlugin` |

A request can be refused, which the code survives (`Refused`), or get no
answer (`Lost`): Herdr may have done what was asked, the connection is
given up and `reconnect_snapshot` follows, with its attempts.

**Abstractions.**
- The stop flags and the control socket are in WorkerLifecycle; the two polls
  of one iteration are one.
- What is due is nondeterministic.  A title with a time to live expires at any time.
- An event that repeats the last unread one of its pane, or a second unread
  one that panes came or went, is not queued again; the code handles each alike.
- The load title's own expiry is not modelled: the heartbeat that repeats it
  is a matter of seconds.
- A pane id is not used again within a run.

### Properties

| Property | What it says of the code |
|---|---|
| `ViewTrue` | a worker that has handled its events knows every pane Herdr has, and of every marked pane, or the event that says so is still to come; also after a pane opened between the subscription and the snapshot |
| `CacheTrue` | what the worker takes for reported, and so leaves out, is what Herdr shows, whatever was refused, lost or forgotten in a restart |
| `MarkShown` | liveness: a pane that keeps the marker has the marker title again and again, though the title expires and whether or not its usage changes |

A pane whose `process_info` was refused has no root until the next pane opens
or closes (`skipped`); it is not reported, and its marker title expires.  The
code says so with `continue`, and `ViewTrue` and `MarkShown` leave it out.
`CacheTrue` speaks while the stream is live: between a restart of Herdr and the
moment the worker notices, the cache is about a server that is gone.

### Run and bounds

`worker`: a pane in a workspace, two usages, two attempts, three changes by
users and two faults.  The loop treats panes one by one, so what two panes add
is their order in a batch; two faults put a failure into the recovery from a
failure.  A worker whose plugin is disabled stops, so deadlock is not checked.

**Fairness.**  Weak fairness of the worker.  Strong fairness of `BeginSnapshot`
and `BeginSample`: time passes, so what is not due at one pass of the loop
becomes due at a later one.  A steady stream of pane events could keep
postponing the snapshot in the code; the model's changes are bounded.

### Proofs

`WorkerLoop_proofs` proves, for any panes, workspaces, usages and bounds,

| Theorem | Statement |
|---|---|
| `AlwaysCacheTrue` | `Spec => []CacheTrue` |
| `AlwaysViewTrue` | `Spec => []ViewTrue` |
| `AlwaysTypeOK` | `Spec => []TypeOK` |

`CacheInv` adds to the first property the shapes of the state, and that nothing
has been sent for a pane yet to open.  The argument: `last_sent` gets a value
only together with what is shown; where Herdr forgets, or an answer is lost,
the stream ends, and only `Connect` opens a new one, with `last_sent` empty;
what is shown of a pane that closes no longer counts.

`ViewTrue` speaks of a worker that has handled its events; `ViewInv` says, while
the stream is live, what is on its way at every other moment.  `RootsTrue`:
during a snapshot the open panes are those still to ask about, found and
skipped, and afterwards `roots` are the open panes that were not skipped; or
the event that says otherwise is in the queue, in the batch or noted as
`dirty`.  `MarksTold`: of a marked pane, every unread event that denies the
marker is followed by a later one that states it (`Corrected`).  `MarksKnown`: a marked pane is
marked in the worker's view or in the snapshot under way, or an unread event says so.

`AlwaysTypeOK` needs both invariants: that a request is about a pane and that
`sync_aghist_title` returns to where it was called is known only from the shape
of the events and of `call` in `ViewInv`.  The rest is divided into the sets of
panes (`SetsFit`), the labels (`ControlFits`) and the counters (`CountsFit`).
The attempts stay within `MaxReconnects` only if there is at least one attempt,
as the assumption of the module says and the constant of the code has it.

Only model-checked: `MarkShown`, which is liveness.

## Not modelled

- The Rust viewers, the shell, Python, Lua and vimscript programs: each is a
  single short-lived process or editor callback without state of its own; see
  PROJECT.json for each.
- The bytes of the formats: variable-length numbers, the envelope, JSON,
  digests, compression, and the refusal of damaged blocks.  They are pure
  functions of their input.
- The order in which one visit of an archive reads its files, beside a writer
  that publishes a frame; in RecordRun the visit is one step.
- The digits by which the manifest entries of several pending blocks differ
  (`preflight_pending_manifest` measures the first).
- A power loss that reorders directory changes of one directory.  With it, a
  kill, a restart that syncs nothing before it publishes, and a power loss could
  combine to lose more than this model allows; journaling file systems do not
  reorder them.
- CPU load per process and the process tree (`CpuTracker`): arithmetic on
  floating-point numbers.
- That a stop request is read although the event connection fails after every
  successful reconnect (main.rs:1916): failed requests are bounded in both
  models of the worker.

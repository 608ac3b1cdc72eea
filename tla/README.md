# MH save sync: specifications

TLA+ models of mh-save-sync, TLC runs that check them on small instances, and
theorems that TLAPS checks for every instance.  Paths such as
`crates/save-server/src/lib.rs` are relative to the repository's root;
`PROJECT.json` maps every definition of a module to the lines it stands for.

## 1. The system

A player's Monster Hunter save is one folder on each device.  Clients encrypt
it into immutable snapshots, upload them to a self-hosted server that keeps
one linear history (HEAD) per logical save and turns what does not fit into
conflict branches, and restore snapshots into folders again.

| Part | State | Operations | Made correct by |
|---|---|---|---|
| **save-server**: snapshot commit (`crates/save-server/src/lib.rs`) | PostgreSQL: logical_saves, upload_sessions, snapshots, snapshot_parents, snapshot_commit_receipts | begin, put chunk or manifest, commit, resolve | one unforked history; exactly one receipt for each snapshot, whatever is retried; truthful answers |
| **save-server**: object store and orphan collection (the same file, `main.rs`, `deploy/compose/scripts/gc-orphans.sh`) | objects, snapshot_objects, orphan_gc_marks, orphan_gc_purge_queue; a versioned bucket | put, mark, claim, sweep; claim, plan, delete and acknowledge a purge | nothing that a committed snapshot needs is removed; orphans go |
| **save-server**: accounts, devices, challenges | accounts, devices, device_challenges | bootstrap, challenge, register, revoke, authenticate | a challenge is used once; a revoked device stays out |
| **save-server**: in-memory backend | maps under one lock | the same handlers | agrees with PostgreSQL |
| **save-engine**: native folder restore (`crates/save-engine/src/lib.rs` 337-949) | target, backup, stage, journal and lock files next to one save folder | restore, recover | the folder is always one whole tree, replaced in one step |
| **save-engine**: local store (1300-1996) | SQLite: capture_state, upload_queue, sync_consistency | mark dirty, claim, enqueue, claim upload, fail, complete | nothing dirty is lost, nothing queued is dropped |
| **save-engine**: snapshots, bundles, diffs | none (bytes in, bytes out) | fingerprint, snapshot, export, import, diff | round trips, validation |
| **save-client** (`crates/save-client/src/lib.rs`) | none of its own | capture, drain, upload, download, pair | takes the engine's and the server's steps in a safe order |
| **save-crypto**, **save-domain**, **save-adapters** | none | keys, AEAD, signatures; types; emulator descriptors | - |
| **save-cli** | none | argument parsing | - |
| **mh3g-save-convert** (`transaction.rs`, `cec.rs`, `extras_transaction.rs`) | the emulator's save files, and next to them a lock file, manifests, backups, a history, transaction directories | convert (dry run), install, roll back; group install of extra data and its roll-back | the player's save is never lost; what is installed can be rolled back; a group changes as a whole |
| **Android application** (`apps/android`) | SharedPreferences, workers, a SAF tree, restore operations and kept backups; the emulator's lease | sessions, capture and drain workers, manual upload, restore and its recovery | never captures or mutates under a running game without noticing; a half-written tree is never played |
| **macOS and Windows applications**, deployment, CI | user interface, configuration | - | - |

How they interact: the Android workers call save-client over JNI; save-client
opens the engine's SQLite store and talks to the server over HTTP; the server
talks to PostgreSQL in transactions and to the bucket outside them; the purge
script works on the same tables and the same bucket from another process; on
desktops, save-cli calls the engine's restore.  The Android restore asks the
emulator, another application, for a lease that keeps it from starting, and
tells it how the restore ended.  The converter is a command of its own that
works on the emulator's files, with other programs beside it.

What is hard here:

- *Concurrency.*  Commit requests race on one HEAD and on one session; the
  collection, the purge and uploads race on one object; two processes may
  restore one folder; capture workers, a drain and manual uploads share one
  SQLite store and one mutex; the game, and other programs, write the files
  that the converter exchanges.
- *Failure.*  Every process may be killed between any two steps; a power loss
  may undo renames that were not fsynced; an answer may be lost after the
  server's commit.
- *Ordering and time.*  Leases run out while their holders still work; requests
  arrive after their sender died; a claimed queue row is overtaken.
- *Two stores without a common transaction.*  PostgreSQL and the bucket;
  SQLite and the bundle files; SQLite and SharedPreferences.

`PROJECT.json` lists these hazards one by one, at their lines.

## 2. The modules

```
AtomicReplace   <--implements--  RestoreTxn      RestoreTxnProofs      MCRestoreTxn
HeadRegister    <--implements--  SnapshotCommit  SnapshotCommitProofs  MCSnapshotCommit
     ^ HeadRegisterProofs
     '---- is each server of --  UploadQueue     UploadQueueProofs     MCUploadQueue
Outbox          <--implements--  UploadQueue
                                 OrphanGc        OrphanGcProofs        MCOrphanGc
                                 ConvertTxn      ConvertTxnProofs      MCConvertTxn
GroupInstall    <--implements--  ExtraTxn        ExtraTxnProofs        MCExtraTxn
                                 SafRestore      SafRestoreProofs
```

`SnapshotCommit` proves that the real commit protocol is a `HeadRegister`;
`UploadQueue` composes the client with that register, not with the protocol.

### RestoreTxn, implementing AtomicReplace

*State.*  `dir` is what the parent directory holds: target, backup, stage and
the restore journal (`RestorePaths`, `RestoreJournal`).  `lost` holds the other
directories that a power loss can leave; `Sync` (`sync_dir`) empties it.  Where
the file system keeps the order of changes (`ordered`) these are the earlier
ones; where it does not, also those in which a change is on disk and one before
it is not (`Overtaking`), for directory changes are only ordered by an fsync.
`holder` is the OS lock, `pc` how far each call is, `want` what it installs,
`outcome` how the last call ended, `game` the emulator.  A tree is absent,
torn, whole, or `soft`: written but not yet fsynced.

*Actions.*  One per step of `restore_snapshot_to_folder` and
`recover_interrupted_restore` that changes the directory, in the code's order:
`AcquireLock`, `Decide` with the plan of `recover_interrupted_restore_locked`,
the roll-back and sweep steps, `FillStage`, `SyncTree`, `JournalStage`,
`ClearBackup`, `SetAside`, `Install`, `DropJournal` and the fsyncs between
them; then `Crash` and `PowerLoss` at any point, kernel writeback, and the game
being launched, saving and exiting.  An I/O error leaves what a kill leaves.
`remove_dir_all` may be stopped half-way and leave a torn tree.  This is
the code on Unix: on Windows `sync_dir` does nothing
(`crates/save-engine/src/lib.rs` 934-937), and nothing is said of power losses
there.

*Abstract specification.*  `AtomicReplace` has one folder that is replaced in
one step.  The refinement mapping is the tree that recovery would make of the
directory, so it says that a kill at any step is harmless, and a power loss that
forgets the latest changes or reorders those of one call.  `WrittenBack` excludes
the one reordering that is not harmless, that of changes left by a killed call
against those of the next call (section 4).

### SnapshotCommit, implementing HeadRegister

*State.*  `head`, `begun` (what a session fixes), `open`, `put` and `lapsed`
sessions, `commits` (the rows one transaction inserts: snapshot, parents,
receipt), `resolved`, and `task`, the commit requests in flight.

*Actions.*  `Begin`, `Put`, `Expire` and `Resolve` are one transaction each.
A commit is the statements of `commit_persistent_with_failpoint`: `Receive`,
`LookUpReceipt`, `ReadSession`, `LockSession`, `LookUpAgain` (the session went
while the request waited), `CheckSnapshot`, `Write`, and `End`, which at any
time also stands for a request that dies.  Row locks are what `HoldsSession`
excludes.  `Write` locks the HEAD's row, decides, inserts and moves HEAD
(1925-2007) in one step, because the row lock lets nobody else in between: that
two commits read the same HEAD before either writes is excluded by that lock
and not explored.  Clients are arbitrary: any device begins, commits and retries
anything under any snapshot id.

*Abstract specification.*  `HeadRegister` decides each snapshot once, as a
fast-forward if its base is the HEAD and as a conflict otherwise.

### OrphanGc

*State.*  One object: its sessions (`upload`) with the requests in flight
(`at`), its `objects` row, the bucket's `versions`, its mark with each
collection's sweep, and its purge-queue entry with each purge.  Every table and
lock is keyed by the object, so one object is enough, but for the purge batch:
the script exits at the first entry whose captured version it cannot list
(`gc-orphans.sh` 148), so `PlanPurge` may stop because of another object's entry
(`othersListed`), as often as it likes.

*Actions.*  `Begin`, `Put`, `StoreBytes` (the bucket) and `PutRow` (the row
and its checksum), `CheckObject`, `OpenCommit`, `InsertReference`, `Commit`;
`MarkTracked`, `MarkUntracked`, `ClaimMark`, `CheckOwned`, `LockObject`,
`CheckRoots`, `CaptureHead`, `Sweep`; `ClaimQueue`, `PlanPurge`,
`DeleteVersion`, `Acknowledge`; the expiry of sessions and leases, and the
failure of each actor at each step.  The advisory lock is `LockFree`.

### UploadQueue, implementing Outbox

*State.*  The device (`session`, `server`, `plays`: the number of the save in
the tree); SQLite (`dirty`, `captured`, `lease`, `queue`, `state`,
`baseline`); SharedPreferences (`ledger`); the capture workers, the drain and
the manual upload under way; `wire`, every commit request ever sent, which the
server may serve at any later time, or never; and the servers, each a
`HeadRegister` (`head`, `decided`).  A row's snapshot is named by the row.

*Actions.*  `StartSession` and `FinishSession` mark a generation dirty;
`StartCapture`, `ClaimGeneration`, `FindNothing`, `Stage`, `Enqueue` and
`FailCapture` are `CaptureWorker.doWork`, `DurableSyncPipeline.capture` and
`queue_android_stable_stage`; `StartDrain`, `ClaimUpload`, `Send`, `Complete`,
`FailUpload` and `EndDrain` are `drain_android_upload_queue`; `StartReplace`,
`FinishReplace` and `FailReplace` are `LocalReplacePipeline`; `Kill` ends
everything in the process.  The mutex is `MutexFree`.  No clock is modelled, so
a lease may be found expired or not at any time: a worker may take it over or
go away, and a drain may claim a row that a dead drain holds or pass over it.

*Abstract specification.*  `Outbox` accepts saves and delivers those of one
server each once, in the order of acceptance.

### ConvertTxn

*State.*  `dir` is what the emulator's directory and the transaction's own
hold: the target, the manifest (whole or torn), the backups by content and the
archived manifests (`history`).  `lock` is the lock file: free, held, or left by
a killed process.  `task` is each call, with what its user saw in the dry run,
what it read and what it has made so far (`made`, which its undoing goes back
through); `game` is the emulator and `owed` the saves that the game wrote and
the converter took away; `excused`, which of two things has happened to a slot
that its code does not guard against: "overlap", a call begun beside a roll-back,
which takes no lock (`BeginsBeside`), and "undoFailed", a target that could not
be put back.  Both are steps of the model, and the properties name them where
they matter; nothing is ever excused of a box.  The constant `Kind` runs both of the code's variants:
a slot or system save (`transaction.rs`) and a street-pass box (`cec.rs`).

*Actions.*  `DryRun`, `Acquire`, `ReadManifest` with
`Replaceable`, `ReadTarget`, `Archive`, `Backup`, `Swap`, `Publish`,
`Installed`; `StepFails` at each of them and the undoing in the code's order,
`UndoManifest`, `UndoTarget`, `UndoBackup`, `UndoHistory`; `StartRollback`,
`RollbackRead` with `RollbackPlan` for a slot, `Inspect` for a box, `PutBack`,
`DropBackup`, `DropManifest`; `Kill` anywhere, the removal of a stale lock by
the user, the game started, saving and ended.

### ExtraTxn, implementing GroupInstall

*State.*  `target`, the group's files; for every transaction its `plan`
(before and after), `journal`, `backup` and `staged` files; the `lock`; `task`,
a call with the component it is at; `outsider`, what other programs do at all
("write", "remove"), and `owed`, the bytes they wrote that must survive.

*Actions.*  `StartInstall`, `WriteJournal`, `WriteBackup`, `WriteStaged`,
`Check`, `Exchange` (two names are swapped at once), `Verify`, and `Reverse`
when it finds other bytes than it expected; `StartRollback` with what it asks
of the journal, the backups and the staged files, `UndoComponent`,
`UndoRename`, `FinishRollback`; `Stop` is a kill or a failure at any step, and
leaves the file being written torn; `Overwrite` and `Remove` are other programs.

*Abstract specification.*  `GroupInstall` replaces a group of files, and puts
it back, in one step.  The mapping is the group in place, or what a
roll-back would bring back while it is a mixture.

### SafRestore

*State.*  `tree`, which may be `Partial`; `head`, the cloud's; `op`, the
operation directories (`lease.json`, the state file, the copy and its encrypted
bundle); `cas`, the backups moved to restore-cas, and `aged`, those deleted there
for their age; `ledger`, the baseline; `lease`, what the emulator knows of each operation; `game`; `task`, the restores.

*Actions.*  Recovery of what was left (`recoverPending`): `RecoverReleased`,
`RecoverRefused`, `RecoverActive`, `RecoverUnknown`, `Relock`; the restore
(`executeWithRoot`): `Create`, `Acquire`, `Capture`, `Encrypt`, `Confirm`,
`Mutate`, `Replace` and `WriteTree` (the tree is emptied, then written: two
steps that stand for many), `Commit`, `RetainBackup`, `Establish`, `Release`,
`Delete`; its error paths `RolledBack`, `Finally`, `Fail` and `FailRelease`
(a release that throws may have been heard); `Kill`, which stops a recursive
deletion anywhere (`Remnant`), and `CleanUp` when the application is opened.
Whenever a backup is retained, and at the end of `CleanUp`, all but the 20
youngest backups are deleted (`cleanupRetention`,
`CloudRestorePipeline.kt` 509-512; `CleanupRetention`, `Kept`); a file that
cannot be deleted is passed over.  A recovery also throws when the user has
chosen another tree since (420): that is one of the outcomes of `Fail` at
"relock", and `tree` is the one the operation was begun on.

## 3. The runs

| Run | Instance | Shows |
|---|---|---|
| `RestoreTxn` | 2 processes, 2 contents, unsynced changes bounded by 2 | `ImplementsAtomicReplace`: the folder is replaced in one step, through kills and power losses, on a file system that keeps the order of directory changes and on one that does not but has written back what a killed call left. `GameReadsSettledTree`: a game that was gated reads a whole tree. `StageCompleteAlwaysRecovers`: a restore killed before it touched the target can always be undone. `RestoredIsDurable`: an acknowledged restore survives a power loss. `BackupKeptUntilNextStage`. |
| `RestoreRetry` | the same | **Violated**, finding 1 |
| `SnapshotCommit` | 2 saves, 2 devices, 2 uploads, 2 requests | `NoForkedHistory`; `ImplementsHeadRegister`; `ReplyMatchesUpload`: success means that exactly what the device uploaded is committed; `NotFoundIsHarmless`: a live upload is not found only if its content is committed; `ReceiptsAcceptable`: what save-client's `valid_android_commit_receipt` accepts; `ParentsCommittedFirst`. |
| `OrphanGc` | 2 uploads, 2 ciphertexts, 2 collections, 1 purge, 3 versions | `NeverAbsent`: what is committed is in the bucket and in the table. `RecordedBytesKept`: the version whose checksum the row records is not purged under a committed snapshot. `AcknowledgedIsPurged`: an entry leaves the purge queue only with all the versions it was queued for. |
| `OrphanLiveness` | 1 upload, 1 collection, 1 purge, 2 versions, fair collections | `OrphanSwept`: what nothing needs is swept. (That its version is then purged is not guaranteed, see section 4.) |
| `ChunkOverwrite` | 2 uploads, 2 ciphertexts, honest clients | **Violated**, finding 2 |
| `UploadQueue` | 1 server, 2 capture workers, 2 rows, 2 saves, 1 rival snapshot, 1 manual upload | `ImplementsOutbox`; `NoSaveLost`: when no generation is dirty, the tree's save is in the queue's history; `NothingPendingMeansUploaded`: when nothing is dirty or pending, a server has the save that is in the tree; `LedgerTruthful`: the ledger pairs a HEAD with that snapshot's content. |
| `QueueLiveness` | 2 servers, 1 worker, 2 rows, fair | `QueueDrained`, `DirtyCaptured`: a row whose base is another server's snapshot would never be accepted. |
| `QueueFalseConflict` | 1 server, 3 rows, nobody else | **Violated**, finding 3 |
| `ConvertTxn` | 2 calls, 2 saves of the game, 1 converted save, 2 archived manifests, both kinds | For a box whatever is killed or fails, for a slot as far as the condition in the property says: `PriorSaveKept` and `RollbackPossible` until something is excused; `KilledRollbackCanFinish`, `FailedInstallRestores` (an install that reports a failure left everything as it was) and `SwapsOnlyWhatWasSeen` (what is swapped out was read under the lock, is whole in a backup, and was seen by the user) until a call overlaps a roll-back. The run looks no further at a slot once that has happened (`CONSTRAINT Alone`). |
| `ExtraTxn` | 2 calls, 2 components, 2 transactions, 1 foreign content | `ForeignBytesKept`: what another program writes is never lost; `MixtureRollsBack`: wherever an install stopped, the roll-back finds all it asks for; `ImplementsGroupInstall`. |
| `SafRestore` | 1 restore at a time, 2 operations, 2 played trees, 2 HEADs, 3 kills or failures, 1 backup kept | `PriorSaveKept`: a played save stays until as many younger backups are in restore-cas as are kept there; `GameReadsWholeTree`; `ReceiptTruthful`: what a release tells the emulator is true of the tree; `BaselineTruthful`; `EmulatorFreed`: every lease is released in the end, for a user who asks again with the same tree. |

Every property of a passing run has a mutant in `PROJECT.json`: a plausible bug
in one definition that makes TLC find the property violated.

*Bounds.*  `MaxUnsynced` limits how many other states a power loss can leave when
a new call starts on an ordered file system; a call itself makes at most two
changes between fsyncs.  Both orders are run (`Orders`).  `MaxParents` is 1 in the runs (a resolved conflict with two
parents differs only in how many ids are looked up) and any number in the
proofs.  `MaxGen` limits the versions a bucket ever gets: three are an
older version, a captured one and one that must survive.  `MaxQueue`,
`MaxPlays` and `MaxSessions` limit rows, saves and sessions: two rows suffice
for order and overtaking, a third is needed for the false conflict, and two
saves let one be made before and one during a capture.  Symmetry is used only
for sets whose members no definition tells apart, and never with liveness.

`ConvertTxn`: `MaxHistory` bounds the archived manifests; two calls are needed
for anything to overlap, and after a third call on the same directory nothing
new can be there.  A larger instance (2 converted saves, one archived manifest,
a slot) passes as well; it is not among the runs for its time.  `ExtraTxn`:
`Count` components and `MaxTxn` transactions; two components are a
mixture, and two transactions an install over one that was installed or undone;
one transaction with three components and two foreign contents passes as
well.  `SafRestore`: `MaxOp` operations and `MaxTrouble` kills and failures in
a behaviour; three let a restore be killed, its recovery fail, and the recovery
of that be killed.  `Kept` stands for the code's 20: with one backup kept, the
second operation's makes the first one's surplus.  Two kept among three
operations, with two kills or failures, pass as well.  Larger instances pass too for `SnapshotCommit` (3 uploads
and 3 snapshots, one request), where a history of three is a chain.

Assumed of the surroundings: in `RestoreTxn`, that no game is launched during a
call (`GatedLaunch`), and on a file system that reorders, that a killed call's
changes are on disk before the next call begins (`WrittenBack`; section 4 says
what happens without it); in `ConvertTxn` the game is not started while a
call runs (the code checks at the start), and an application passes the hash
that its dry run printed.  In `ExtraTxn`, POSIX renames and exchanges; an
unfinished installation is rolled back before the next one, as the message
tells the user; other programs do not create a component that is missing.  In
`SafRestore`, the emulator remembers its leases and does not start under one,
and the user does not choose another tree while an operation is pending.

*Deadlock* is checked where the system runs forever (`RestoreTxn`,
`RestoreRetry`, `SafRestore`).  The other configurations switch it off because
their finite supply of uploads, versions, rows, sessions or transactions is
used up in the end.

*Fairness.*  `OrphanGc`: the operator's timer runs collections again
and again, so each of their steps that stays possible, or becomes possible
again after every failure, is taken in the end (weak and strong fairness);
leases expire because time passes; a request that holds the object's lock ends,
as PostgreSQL ends the transactions of dead clients.  Uploads, failures and
purges have no fairness: one entry can stop every purge.  `UploadQueue`: WorkManager keeps the periodic capture worker
and retries the drain worker; a step that every attempt may fail at succeeds in
some attempt (strong fairness); a request that was sent is served; work that
gets no further ends.  The user, the game, kills, failures, and other devices
have no fairness.  `SafRestore`: weak fairness of a restore's own steps; a
running application goes on, and the user asks again after an error, with the
same tree, which recovers what was left.  Failures, kills and the game have no fairness.

## 4. Findings

1. **A killed recovery cannot be retried** (`RestoreRetry`).
   `rollback_interrupted_restore` renames the backup onto the target before the
   journal is removed.  Killed in between, while the stage still exists, it
   leaves a journal that asks for a backup that is gone; every later call fails
   although the target is whole.  The doc comment at line 673 says retrying is
   safe and idempotent.
2. **A refused put has replaced the bytes** (`ChunkOverwrite`).
   `persistent_put_object` writes to the bucket before it compares checksums,
   and a second encryption of a chunk has other bytes.  Readers then get a
   version that the row's checksum refuses.
3. **A conflict with oneself** (`QueueFalseConflict`).  A drain killed between
   the server's commit and `mark_upload_completed` leaves its row leased while
   later rows pass it.  A capture then takes the old row as its parent, or
   later the baseline that the replayed completion sets back to the older
   snapshot; ADR 0012 says that no false conflict can come of such a kill.

Shown by TLC with a constant or a property changed, with no run of their own:

- *Restore.*  The emulator's state is looked at once, before the lock is waited
  for (`crates/save-engine/src/lib.rs` 476), where ADR 0007 line 32 orders
  lease, then proof that the emulator stopped, then replacement: with
  `GatedLaunch = FALSE` a game started in between has its tree swapped.
- *Restore, reordered by a power loss.*  Recovery that finds the new tree
  installed unlinks the journal (732) with no `sync_dir` before it.  Killed
  between the rename at 571 and the `sync_dir` at 572, a restore leaves that
  rename unsynced; the next call takes the tree as installed and unlinks the
  journal; a power loss that keeps the unlink and forgets the rename leaves
  neither target nor journal, so that recovery does nothing (the old tree is
  still in the backup).  With `WrittenBack = FALSE` and `Orders = {FALSE}` TLC
  finds `ImplementsAtomicReplace` violated by these 22 states; the doc comment at
  669 says that the call recovers from process or power loss.  File systems with
  a metadata journal keep the order.
- *Purge.*  One killed after it deleted the captured version and before its
  acknowledgement leaves an entry whose version cannot be listed, at which
  every later batch of up to 1000 stops (`gc-orphans.sh` 148, against ADR 0006
  lines 39-52): neither its own older versions nor the other objects of its
  batch are then sure to go.  No property promises that they do.
- *Converter, slot.*  A roll-back takes no lock (`transaction.rs` 455; the
  comment at 22-25 says that no other writer can replace the target between
  check and installation).  Without the condition `excused = {}` in
  `PriorSaveKept`, and without the constraint, TLC loses a save to an overlap in
  21 states; without `Alone` in `SwapsOnlyWhatWasSeen` it swaps out another save
  than was seen in 19.  The undoing of a failed install removes the new backup
  even if the target could not be put back (410-423, against ADR 0013's "A failed
  installation restores the prior target"): without `excused = {}` that loses a
  save in 11 states, with one call alone.  `cec.rs` does both right.
- *Converter, after kills.*  An install killed between backup and swap is
  refused when repeated until the game has saved anew; a repeated
  install of the same content whose roll-back is killed before the manifest
  goes can go neither way, nor can a roll-back killed there once the game has
  saved; a lock file left by a killed process stays.
- *Extra data.*  A missing component is put back by a check and a rename: with
  `OutsiderCreates = TRUE` what another program creates in between is lost.  If
  an older installation is rolled back under a newer one (`AnyOrder = TRUE`), the
  group is no longer changed as a whole, and the newer one may hold nothing
  from which it could be rolled back.  Before all
  backups are written the journal is not yet one from which a roll-back
  succeeds, against the comment at `extras_transaction.rs` 1562-1564.
- *Android restore.*  A kill within the final recursive deletion that removed
  the state file and not yet `lease.json` leaves an operation at which every
  later recovery throws `restore_terminal_receipt_mismatch` (`RecoverRefused`),
  and no restore can be made any more.  A recovery is also refused while another
  folder is chosen than the one the operation was begun on, with the emulator
  held until the first is chosen again.  A played save that a restore replaced is
  gone from restore-cas after 20 younger backups.

Seen while reading, with no run of their own: the manual upload and the cloud
restore write only the SharedPreferences ledger, which captures ignore once
SQLite has a baseline (`crates/save-client/src/lib.rs` 876-884), so that a
capture after them conflicts; `LocalReplaceResult.parse` knows the outcome
"created" where the server says "first-snapshot", so that a first manual upload
is reported as failed.  The Android restore does not take
`AndroidSyncOperationMutex`, so that a capture may read a half-written tree,
and nothing but a disabled button keeps two restores apart.

## 5. The proofs

| Theorem | Says |
|---|---|
| `HeadRegisterProofs!OneHistory` | the register keeps one unforked history that ends at HEAD |
| `SnapshotCommitProofs!TypeCorrect` | `Spec => []TypeOK` |
| `!TruthfulReplies`, `!HarmlessNotFound`, `!AcceptableReceipts` | `ReplyMatchesUpload`, `NotFoundIsHarmless` and `ReceiptsAcceptable` always hold |
| `!ParentsFirst` | the action property `ParentsCommittedFirst` |
| `!Refinement` | `Spec => Register!Spec`: the commit protocol implements the register |
| `!OneHistory` | `NoForkedHistory` and `HeadEndsHistory`, from the refinement and the register's theorem |
| `RestoreTxnProofs!TypeCorrect`, `!GameSafe`, `!AlwaysRecovers` | `TypeOK`, `GameReadsSettledTree` and `StageCompleteAlwaysRecovers` always hold, under `GatedLaunch` and `WrittenBack` |
| `!Durable`, `!BackupKept` | the action properties `RestoredIsDurable` and `BackupKeptUntilNextStage`, under `GatedLaunch` and `WrittenBack` |
| `!Refinement` | `Spec => ImplementsAtomicReplace`, under `GatedLaunch` and `WrittenBack` |
| `OrphanGcProofs!TypeCorrect`, `!BytesKept`, `!HeadIsPresent` | `TypeOK`, `RecordedBytesKept` and `NeverAbsent` always hold |
| `!AcknowledgedPurged` | the action property `AcknowledgedIsPurged` |
| `UploadQueueProofs!TypeCorrect`, `!SavesQueued`, `!NothingPending`, `!Ledger` | `TypeOK`, `NoSaveLost`, `NothingPendingMeansUploaded` and `LedgerTruthful` always hold |
| `!Refinement` | `Spec => ImplementsOutbox`: the rows are delivered once each and in order |
| `ConvertTxnProofs!TypeCorrect`, `!SavesKept`, `!CanRollBack`, `!KilledRollbackFinishes`, `!FailureRestores` | `TypeOK`, `PriorSaveKept`, `RollbackPossible`, `KilledRollbackCanFinish` and `FailedInstallRestores` always hold: for a box outright, for a slot on the conditions they state |
| `!OnlySeen` | the action property `SwapsOnlyWhatWasSeen`, for a slot until a call overlaps a roll-back |
| `ExtraTxnProofs!TypeCorrect` | `Spec => []TypeOK`, whatever other programs do |
| `!ForeignKept` | `ForeignBytesKept` always holds, under `~OutsiderCreates` |
| `!RollsBack` | `MixtureRollsBack` always holds, under `~AnyOrder` |
| `!Refinement` | `Spec => ImplementsGroupInstall`, under `~AnyOrder` |
| `SafRestoreProofs!TypeCorrect` | `OneTask => (Spec => []TypeOK)` |
| `!PlayedSavesKept`, `!GameSafe`, `!Baseline` | `PriorSaveKept`, `GameReadsWholeTree` and `BaselineTruthful` always hold, under `OneTask` |
| `!Receipts` | the action property `ReceiptTruthful`, under `OneTask` |

They hold for any sets of processes, devices, saves, contents, uploads,
workers and requests, and for any value of the bounds: any number of rows,
versions, transactions, kills and failures.

*Assumed.*  Each module's assumption on its constants says that its markers
(`None`, `Absent`, `Free`) are none of the things they are told apart from, and
that bounds are numbers.  `ConvertAssumption` also says that no save the game
writes is one that the converter made: bytes that the converter made, it makes
again from the same source, so that nothing of the player's is in them.  Beyond
these, three modules need a hypothesis, each of which is a way the code is used
and not something it enforces:

- `GatedLaunch` (RestoreTxn): no client launches the game while a call runs.
  The clients recover before they launch, in one sequence; that the check in the code
  comes too early to see to it is listed among the findings.
- `WrittenBack` (RestoreTxn): where a power loss reorders directory changes, those
  of a killed call are on disk before the next call starts.  It excludes
  nothing on a file system that keeps their order.  Without it, section 4's
  counterexample stands.
- `~OutsiderCreates` (ExtraTxn, `ForeignKept` only): no other program creates
  a component that is missing.  The code looks whether it is, and then renames;
  what is created between the two is lost, as section 4 says.  Components that
  are there may be written over, or removed, at any moment.
- `~AnyOrder` (ExtraTxn, `RollsBack` and `Refinement`): installations are
  rolled back newest first, and an unfinished one before the next is begun, as
  the messages tell the user.  The journals of all of them stay, and nothing in
  the code refuses an older one.
- `OneTask` (SafRestore): no restore starts before the last one has ended or
  was killed.  Only the restore's disabled button sees to that in the code (see
  the hazards); nothing is proved of two that overlap.

*HeadRegister.*  `NoForkedHistory` is not inductive: a new decision could share
its base with an old one.  `Inv` adds that a snapshot is decided once, that
bases are decided and that HEAD is where the history ends; so nothing that is
decided already has HEAD as its base.

*SnapshotCommit.*  `Inv` is `TypeOK`, four facts about the rows, and
`TaskInv(r)` for every request.  The row facts: each row carries the content
its upload was begun with; a save without HEAD has no snapshots, so that a
conflict always has a HEAD to name; an upload that is closed was closed by a
commit of its content; receipts are acceptable.  `TaskInv` says what a request
knows at its place in the handler: at "again", that its session has lapsed or
was closed; at "write", that its parents are still valid; at "reply", that its
content is committed; at "notFound", that it lapsed or that another upload
committed its content.  None of the run's invariants is inductive without
these: `ReplyMatchesUpload` needs `ContentKept`, `NotFoundIsHarmless` needs
`ClosedByCommit`.  Facts about rows carry over to later states because rows
only accumulate (`AccumulatesStep`), which every case uses.  There is one step
for each action.  The refinement maps `Write` to `Decide` (`WriteDecides`) and
all else to stuttering.

*SafRestore.*  No property is inductive alone: `PriorSaveKept` needs to know
that an operation is deleted only once its copy is in restore-cas.  `WorldInv`
says what holds between restores: at most one operation is pending
(`OnePending`); the game does not run under a lease; a partial tree has an
operation with an active lease in MUTATING or ROLLBACK_REQUIRED; under a lease,
the state file says what the tree holds (`TreeInv`); a played save that is not
in the tree is in restore-cas or in an operation that is unsettled or committed
(`SavesKept`).  `TaskInv` says what a restore knows at each step.  A kill keeps
`WorldInv` and leaves no task, so recovery starts from `WorldInv` alone.
`OwnOperation` carries the invariant over every step that changes one operation
under its lease.  That a backup is deleted only for younger ones is `ShelfInv`: operations are
begun in their order, and the pending one, if any, is the last, so that its own
backup is the youngest and never surplus; each one deleted had `Kept` younger ones.

*RestoreTxn.*  `DirInv(d)` says what each phase of the journal says of the
other names in directory `d`, and holds of the directory and of every other
state of it that a power loss could leave: this is why a power loss can be
recovered from.  For this to hold of reordered states too, `PcInv` says that
where the order is not kept, what can be lost at each step differs from the
directory in the stage only, in the backup only, or not at all (`BesideStage`,
`BesideBackup`): two changes of which recovery minds the order are always
separated by a `sync_dir` of the same call.  `LostInv` adds that these states differ by one restore at most
and agree on the backup; `LockInv` that the calls exclude each other; `GameInv`
that a game runs only over a directory on which recovery has nothing to do; and `PcInv(p)`
what the lock's holder knows at each step.  `Quietly` is a step that changes
neither what recovery would make of a directory nor what it knows.  The
refinement then needs one fact for each step: what recovery would make of the
directory (`Save`) changes only in `Install`, when the game saves and, by a power
loss, back to the old tree before the restore was acknowledged.

*OrphanGc.*  `RecordedBytesKept` is not inductive: a purge might already be under way
for the version it speaks of.  `Preserved(b)` says that some version of
the bytes is newer than everything queued or being purged, and holds of the bytes that
a put has stored under the lock but not recorded; `LockInv` says that no
sweep is at work meanwhile, `HeadsKnown` that a purge takes nothing newer than
what was captured, and `ReferenceInv` that what is referred to keeps its row.
`AcknowledgedPurged` has `PurgeInv` besides: the purge that
owns the entry works on the entry's captured version, and of the versions up to
that one only those it has still planned are in the bucket.
That a bounded set of versions has a newest one is `Newest`, by well-founded
induction.

*UploadQueue.*  `Capture` and `Delivery` are the two halves of the invariant,
and a step touches one or reads the other through `Enqueue` only.
`StagedTruthful` is what `NoSaveLost` needs: a generation that was staged since
the last session ended holds what the session left, though it may be stale when it
is enqueued.  For the refinement, `BaseCovers(i)` says that of the rows before
`i` on its server all are decided but some that come no later than its base, and
`SentInOrder` that a row is sent only when all earlier ones are decided; a
server's decision is then that of the first row its outbox still holds.
The refinement maps a server's decision to `Outbox`'s delivery.

*ConvertTxn.*  For each call under way, `PcInv` says what it knows of the
directory, and of the directory that it found (`before`): `Sole` that only its
own backup and manifest differ from it, `BackupKnown`, `TargetKnown` and
`ManifestKnown` that each is as its `made` says, and `Undone` that an undoing that
is through has restored everything.  `FailedInstallRestores` is its last
case.  `OneCall` says that calls, and the game, exclude each other.
`RollbackPossible` and `PriorSaveKept` are kept together: dropping a backup is
safe because the target holds what it held.  What is inductive is `Always`, that
all this holds as long as no call has overlapped a slot's roll-back: nothing can
be said of a slot afterwards, and a box never gets there.

*ExtraTxn.*  `FilesInv` and `PcInv` hold whatever other programs do: a staged
file has its journal and all backups; each phase knows which staged files it has
already exchanged (`Unswapped`, `Exchanged`).  `RollsBack` needs what
the installations know of each other.  In every component, `Coherent` says,
each installation was made over what the one before it had left (`Chained`), and what
the newest one has left is in place (`Settled`); unless another program's bytes
are `Lost` in a transaction, which keeps them for good, or `Pending`, on
their way back.  `SwapCoherent` carries this over an exchange, and `LiveLost`
over the end of a call whose transaction holds nothing any more: the one before
it is then the newest, and `Chained` becomes its `Settled`.  `MixtureRollsBack`
follows because it speaks of groups in which nothing is lost.  For the
refinement, `LastInv` adds that the group is what the transaction that changed it
last has left, and that only this one may be half-way: an
exchange that completes the group is `Install`, the first that takes a complete
one apart is `Undo`, and all others change nothing that `Recoverable` shows.

Only model-checked: all liveness (`OrphanSwept`, `QueueDrained`, `DirtyCaptured`, `EmulatorFreed`).
Liveness under fairness and `ENABLED` are out of the prover's reach, as is
induction over data (what a recursive definition computes for every input);
they stay with TLC.  Every other property of the passing runs is a theorem.  `RecoveryIsRetryable`, `CommittedReadable`
and `ConflictNeedsRival` are violated.

## 6. Not modelled

- Accounts, devices and challenges: each operation is one transaction, and a
  challenge is consumed under its row's lock; SnapshotCommit takes an
  authenticated device as given.
- The in-memory backend: every handler runs under one lock.
- Fingerprints, encryption, bundles, diffs, descriptors and argument parsing:
  sequential code over bytes.
- The converter's byte formats, the merges of system and event data and its
  tables (more than half of all the lines of Rust are one generated table and
  the transforms that read it); the repair command, which strings dry runs and
  installs together; its primitives on Windows, which have no exchange.
- The Android `LocalBackupRestorePipeline`, which nothing calls; a cloud restore
  together with captures and manual uploads; two restores at once; the desktop
  applications.
- A corrupt restore journal (it is fsynced before it is renamed into place),
  I/O errors other than as a kill in RestoreTxn, power losses outside it and on
  Windows, where `sync_dir` does nothing, and bit rot.
- A slot after a call has overlapped a roll-back of it, and the objects of a
  purge batch other than the one modelled.
- In UploadQueue: the migrations of old schemas and of a legacy receipt; the
  ledger written by a cloud restore; the bound of 100 uploads per drain; the
  conflicts of other devices, which move no HEAD.

## 7. Plan

1. `Devices`: challenges, registration and revocation, with revocation between
   a request's authentication and its effect.
2. `SafRestore` composed with the captures of `UploadQueue`.
3. Operators: chunk validation and the range diff, against reference
   definitions.

# Gas Ratio Pro in TLA+

Gas Ratio Pro is a Streamlit application for well-log interpretation. Its numbers come from pure
functions; what can go wrong between threads, browser sessions, files and crashes is in a few
services that keep state on disk or in the session. This directory models those services in TLA+,
checks the models with TLC and proves theorems about all of them with TLAPS.

    tlc -workers 2 -config MCImportJobs_jobs.cfg MCImportJobs      # one run
    tlapm RepositoryTransactionProofs.tla                          # the proofs of a module

`PROJECT.json` ties everything together: components, runs, theorems, the hazards the properties are
about, the source lines behind every definition, the disagreements found between code and
documentation, and one mutant per property (a plausible bug in one definition under which the
property fails).

All paths below are relative to `src/`.

## The system

| Component | State | Operations | What is hard | What makes it correct |
|---|---|---|---|---|
| Journalled repository `core/repository_io.py` | JSON files; `.repository_transactions/<uuid>/` with manifest, backups, staged files | `AtomicJsonTransaction.commit`, `AtomicJsonStore.write`, `recover_transactions`, quarantine, cleanup script | a crash at any file system step, failing writes, failing rollbacks, two sessions on one root | a batch takes effect at once or not at all; undo information is complete whenever it may be needed; a rollback touches only its own work |
| Import jobs `core/data_platform/import_jobs.py` | `imports/jobs.json`, `history.jsonl`, staging directory; jobs and futures in memory | submit, run, progress, cancel, retry, append history, prune, staging cleanup, restart recovery | worker thread against the session's thread, three writes per end of job, restarts, managers that their session leaves while their worker runs | a job is listed once and ends once; history agrees with the registry; cancel stops a running job; cleanup spares sources in use |
| Background export `reports/background_export.py` | snapshot rows in the session state; futures, cancel events, results in a runtime shared by the project's managers | submit with de-duplication, run, cancel, get result, dismiss, trim, recovery in the constructor | worker against script, managers dropped and rebuilt, dispatcher rollback of the session state | an accepted cancel beats the result; no request runs twice at once; an ended job stays ended; each result can be claimed |
| Calibration trust `services/calibration_package_trust_application_service.py`, `services/operator_calibration_package_application_service.py` | signatures, reviews, revocations, promotions (immutable files); environment and active file | import signature, submit review, revoke, promote, evaluate, activate, deactivate, authorize | no locks between sessions; a decision is four reads; second-level timestamps; expiry | no decision passes over an obstacle that stood all along; production rests on validation |
| Interpretation publication and revisions `projects/interpretation_publication.py`, `interpretation_revisions.py`, `interpretation_access.py` | `publication.json` with status, published revision and events; the revision index and one file per revision | submit, return, approve, reopen, publish, unpublish; save, delete, prune, restore | a status is required, then read again, then written; file and index are two writes; revisions go while published | the events are a chain; nothing locked is edited; index and files agree |
| Interval editing `projects/interpretation_interval_commands.py`, `interpretation_interval_manager.py`, `interpretation_interval_batch.py`, `interpretation_intervals.py` | `intervals.json`; bounded undo and redo stacks in each session | create, update, delete, batch, undo, redo | other sessions and restores change the file under the stacks | undo restores exactly what its command replaced |
| Interval types `projects/interpretation_interval_types.py` | type catalog, operations journal, one backup per operation, all interval files of the project | upsert, delete, reassign and delete, undo | one operation writes many files, each of which may fail; late undo | all or nothing; a type in use is not deleted; undo exact |
| Datasets `core/data_platform/{artifact_store,manifest_repository,metadata_catalog}.py`, `services/data_platform_application_service.py`, `services/las_viewer_open_workflow.py` | artifacts, manifests, SQLite catalog, the viewer's LAS records | import, open in the viewer, save from the editor, reconcile | three stores written one after the other by several threads without a lock; failing writes, unreadable manifests | every manifest has its artifact, every row its manifest, every lineage one line of versions |
| Interpretation catalog and correlation `projects/interpretation_catalog.py`, `interpretation_correlation*.py` | directory list and trash; one correlation file with undo | create, trash, restore; edit, undo | a crash between a move and its description | not modelled |
| Session services `core/application_service_container.py`, `runtime_service_registry.py`, `session_state_manager.py`, `workbench_dispatcher.py` | per-session services, session state | resolve, drop on project change, snapshot and rollback | services that outlive or lose their state | modelled where it reaches the export and import managers |
| Event bus, rerun coordinator, render queue `core/event_bus.py`, ... | queues within one script run | publish, drain | sequential | unit tests reach it |
| Repository health, storage cleanup `core/repository_health.py`, `core/data_cleanup.py`, ... | reports, deletions | scan, clean | deletes while others write | only generated and unused data goes |
| Workspace session, autosave `core/workspace_session.py` | one session's workspace | save, restore | restart | restores what was saved |
| Calculations, geology, plots, editors, UI, scripts, tests | none that is shared | | | out of the scope of a model checker |

How they interact. A browser session runs its script in one thread and owns its services (built in
`core/application_service_container.py` and kept by `core/runtime_service_registry.py`); import
managers and export runtimes add one worker thread each. Sessions share files and nothing else: no
component locks a file against another session. A command of the shell runs in
`core/workbench_dispatcher.py`, which snapshots the session state and restores the copy when the
command fails. A change of project, well, LAS file or workspace drops the services of that scope
(`core/session_state_manager.py`, 209-219) and stops none of their threads, so that managers are
rebuilt over state their predecessors' threads still write: in one session, the import manager at
every such change, the export manager at a change of project. Revision, publication and correlation repositories sit on the journalled
repository; the interval manager asks the publication repository before it edits, the batch
operations on types go around it; imports, viewer and editor register datasets through one service; a final report asks the operator package service, which asks the trust service.

## Modules

| Module | Models |
|---|---|
| `AtomicUpdate` | what a journalled repository promises: batches that take effect all at once |
| `RepositoryTransaction` | `core/repository_io.py`, step by step; implements `AtomicUpdate` |
| `RepositoryTransactionProofs` | the proofs |
| `MCRepositoryTransactionAtomic`, `MCRepositoryTransaction` | its constants for TLC, the first with the inductive invariant |
| `JobLedger` | what `imports/jobs.json` promises |
| `ImportJobs`, `ImportJobsProofs` | `core/data_platform/import_jobs.py` and the loop it runs; implements `JobLedger`; the proofs |
| `BackgroundExport`, `BackgroundExportProofs` | `reports/background_export.py`, the service over it, and the session events that reach it; the proofs |
| `CalibrationTrust` | the two calibration services |
| `CalibrationTrustProofs` | the proofs |
| `SequenceDrop`, `SequenceDropProofs` | the list comprehensions of the export registry and the revision index; what they leave, proved |
| `UndoableDocument` | what undo and redo promise for a document that several sessions share |
| `InterpretationEditing` | one interpretation: intervals, undo stacks, workflow, revisions; implements `UndoableDocument` |
| `InterpretationEditingProofs` | the proofs |
| `DatasetRegistry`, `DatasetRegistryProofs` | artifacts, manifests, catalog and viewer records; the proofs |
| `IntervalTypes`, `IntervalTypesProofs` | types and their batch operations; the proofs |
| `MCImportJobs`, `MCBackgroundExport`, `MCCalibrationTrust`, `MCInterpretationEditing`, `MCDatasetRegistry`, `MCIntervalTypes` | constants and symmetry sets for TLC |

### RepositoryTransaction

`disk` is the contents of the files, `journals` the journal directories that have a name
(`status`, `entries` of the manifest, and which `backups` and `staged` files exist). The other
variables are what a session's thread holds in `commit` or `recover_transactions`: its place `pc`,
what the recovery under way is for (`goal`: opening, the beginning of a commit, the commit's own
rollback, or the final removal), the batch, the current directory, the list of directories left,
the manifest entries in memory and the index.

| Action | Code |
|---|---|
| `Open`, `OpenWithoutRecovery` | a revision repository is built on the root, which recovers; or the root is used without one |
| `Edit` | `AtomicJsonStore.write` / unlink of one file outside a transaction |
| `Begin`, `MakeDir`, `Stage`, `WritePrepared`, `WriteApplying`, `Apply`, `WriteCommitted` | `commit`: recover, mkdir, copy a backup and stage, publish the manifest three times, `os.replace` each file |
| `CommitRaises`, `MakeDirRaises`, `PublishRaisesLate` | an exception in each region of `commit` and its `except` clause |
| `StartUndo`, `Undo`, `UndoBlocked`, `UndoRaises`, `UndoDone`, `Quarantine`, `StartRemoval`, `Vanished`, `RecoveryDone` | `_recover_transaction_dir` and the loop over directories |
| `RemoveFile`, `RemoveDir`, `RemovalFails`, `CleanupCommitted` | `rmtree` file by file, which may leave any part of the directory and says nothing (`ignore_errors`); the maintenance script |
| `Crash` | the process dies; the disk stays |

One action is one file system step. `os.replace` is atomic, as the code assumes; work on files
nobody else can see yet (the temporary file of a write) is merged with the step that makes it
visible. A directory moved to quarantine is never read again by this code and leaves the model.
Names are fresh (`uuid4`), so a name can be reused once its directory is gone.

The abstract specification has one variable for the logical contents and one for the batches under
way. The refinement mapping `Logical` says: files of an unfinished journal (manifest `prepared` or
`applying`) count with their old contents, all others as they are. The commit point is
`WriteCommitted`; a batch takes effect there and nowhere else.

### ImportJobs

On disk: `jobsFile`, `history`, `staged`. In memory, per manager: its state (`down`, `recovering`,
`up`, or `left` by its session), its `jobs`, the executor's `queue`, the worker thread `work`, the
thread `ui` of the session that uses it. `sources` and `failed` are the immutable parts of a job's
record. `asked`, `late` and `overlapped` are read by no action: they remember how a cancel call found
the worker, how many files the job imported after it, and that a manager was built while another was
in use or at work.

Every acquisition of the manager's lock is one action, and file steps outside the lock are actions
of their own: a job that ends is written to `jobs.json` and then to the history, `prune` reads and
later replaces the history, the cleanup computes the protected paths, lists the directory and
deletes file by file. `SubmitRaises`, `CancelRaises`, `BeginRaises`, `FinishRaises`, `RecoverRaises`
are failing writes, `RunnerRaises` an importer that raises. A submission that trims writes
`jobs.json` twice (`_trim_locked`, 462), so that the file may or may not have changed when it raises.

`Boot` and `RecoverJob` are the constructor and its recovery, which may come at any time, `Crash`
ends every session. `Leave` is the change of workspace, and the end of a browser tab: the session
forgets the manager, its worker goes on through its queue, and nothing keeps the next manager from
being built beside it. `MaxOpen` is the number of browser tabs; the names of managers that are
`Gone` (down, or left with nothing to do) are used again.

`JobLedger` says of `jobs.json` alone: a job is registered once, moves while it is active, ends
once, is forgotten only after it ended, and a restart turns active ones into `interrupted`.

### BackgroundExport

`stores` are the dicts of snapshot rows: `kept` is the one in the session state, `bound` the one
the live manager holds (they part when the dispatcher puts a copy back). `queue`, `futures`,
`events`, `results` are the runtime that all managers of a project share; `work` is the worker
thread, `ui` the session's script between two acquisitions of the lock. `home` is the store of the
manager that submitted a job: its worker goes on writing there. `inTime` remembers the jobs whose
cancel came before the run's last look at its event.

Submission (`Submit`, `Register`), the run (`Start`, checks, reports, `LastCheck`, `End`, the
`done` callback `Settle`), `Cancel`, handing over and dismissing results (`DismissTerminal`), the
constructor's recovery (`recover`, which reads rows and futures without the lock), the change of
project and the failing dispatch are actions; eviction by `_trim_store` is part of the action that
writes a row.

### CalibrationTrust

The immutable files are sets (`signatures`, `revocations`, `promotions`) and the sequence
`reviews`, in which a record names the reviewer's previous one; `environment` and `active` are the
two files that are overwritten; `authorized` the final authorizations issued. `calls` holds, per
session, the call under way with what it has read: `promote`, `activate_package` and
`authorize_methods_for_export` all pass through the reads of `evaluate` (`ReadState`,
`ReadSignature`, `ReadReviews`, `ReadEvidence`), any other call may fall between two of them, and
`Fail` ends a call anywhere. `standing` is read by no action: it collects what has spoken against a
call from the reference time of its decision on.

The clock has the one-second resolution of `utc_now_iso`; `decided_at` and `effective_at` are the
clock or a date the caller gives (`Dates`), earlier or later. `Marks` are the ways in which the
hashes of records of one second may compare; several promotions with equal times are told apart by
them alone. The reads of one kind of file are one step: reviews are immutable and one listing reads
them. What a signature, key or manifest says is a constant; the checks of ZIP files, Ed25519 and
hashes are external and an `Envelope` is one that verifies. Decisions of one reviewer for one
package do not overlap (see the weaknesses below for what happens when they do).

### InterpretationEditing

`intervals`, `workflow`, `revisions` and `index` are the files of one interpretation, `history` the
undo and redo stacks each session keeps, `calls` the call a session is in with what it has read.
Every read of a file and every write is a step, so that any two calls of different sessions can
interleave; `Overlapping` names the kinds of calls that do. A mark stands for what an interval says,
its `updated_at` included, and the state token of a set of files is that set, since it is a hash of
them.

| Action | Code |
|---|---|
| `BeginCreate`, `BeginUpdate`, `BeginDelete`, `BeginBatch` | the manager asks for the status, then a command begins; a batch lists the intervals first and replaces all |
| `LoadBefore`, `LoadCurrent`, `SaveEdit`, `RecordEdit` | the command service loads, the repository loads and saves, the service loads again and records |
| `BeginUndo`, `FinishUndo`, `BeginRedo`, `FinishRedo` | compare with the entry, replace all, move the entry |
| `BeginMove`, `ReadWorkflow`, `WriteWorkflow` | a workflow method checks role and status, `transition` reads the file again and writes it |
| `BeginCapture`, `WriteRevision`, `ListForCapture`, `WriteIndex` | saving a revision: file, then index |
| `BeginDeleteRevision`, `BeginPrune`, `RemoveFile`, `ListForRemove` | deletion: unlink, then index, one revision after the other |
| `BeginRestore`, `CheckRestore`, `CommitRestore` | token check, then one transaction of `RepositoryTransaction` |
| `CallFails` | a write raises and the call ends where it is, between the two files of a revision included |
| `ListUnreadable` | the index cannot be read, is taken for an empty one (`_read_json`, 339-345), and is written over |
| `Tick`, `Crash` | the clock in seconds; the server stops and session state is lost |

The refinement mapping to `UndoableDocument` is the state itself, but for `HistoryAsPromised`: a
command that is saved and about to be recorded counts as recorded, since the abstract command changes
the document and remembers it at once. A restore is an `Overwrite`, a crash or failure after a save a
forgotten command. `forgotten` is a ghost: the revisions whose rows went with an index that could not
be read. An `intervals.json` or `publication.json` that cannot be read, which the code takes for an
absent one, is not modelled.

### DatasetRegistry

`artifacts`, `manifests` and `catalog` are the three stores, `records` the LAS records the viewer
writes before it registers their dataset. A registration looks for a place for its file, stores it,
reads it back, checks the lineage, saves the manifest and projects it into the catalog, each a step
(`LookForArtifact` to `ProjectManifest`); it is begun by an import worker (`BeginImport`), the
viewer (`BeginOpen`, whose payload is built and may be refused at the end) or the editor
(`BeginSave`, a version after an uploaded dataset). `Reconciliation` is the comparison and rebuild of
the catalog. Any session may make any call, and the steps of all calls interleave freely: the code has
no lock, and import workers, their left predecessors and other browser tabs share the files.

`FailCall` is a failing step of any of them, `Raise` and `DeleteRecord` what the viewer does then; a
deletion that fails keeps the record. `Listed` is `manifest_repository.list`, which passes over the
manifests it cannot read: a lineage check or a reconciliation may see any part of what is there. A
content stands for its checksum.

Five ghosts say what an overlap or a failure has cost, and each property names the one it excuses:
`raced` (names whose place two registrations found free before either had stored a file), `blind`
(lineages of which a version was checked while another was unreadable, or checked and not saved),
`kept` (records whose deletion failed), `torn` (the catalog was left behind and not set right since)
and `partial` (reconciliations that do not know every manifest, or are not alone).

### IntervalTypes

`catalog`, `files` (the types that occur in each interval file of the project, and a mark for
everything else it says), `journal` and `backups` are files; `call` is the batch operation that runs.
`reassign_and_delete` writes a backup, reassigns file by file, deletes the type, seals the backup
with what the files hold now and appends to the journal; `undo_last_reassignment` compares the seal,
puts everything back, marks the entry and drops the backup. Any write may fail, which starts the
rollback of the code, and the server may stop at any step. `known` and `past` are ghosts: types
that were ever defined, and the project as each operation found and left it.

Upserts, deletions of unused types and edits of intervals fall between batch operations, as they do
for one user; an edit may bring back a deleted type, because the undo of an edit and the restore of
a revision do. The bare `reassign` has a rollback of its own inside that of `reassign_and_delete`;
both put back the same bytes and the model has the outer one.

## Runs

Bounds are constants with names (`Max...`) that stand in guards of the model; where the code has a
number too (`MAX_SNAPSHOTS = 20`, the jobs a manager keeps) the model's is smaller so that
the limit is met.

| Run | Instance | Shows |
|---|---|---|
| `atomic` | 1 session, 2 files of 2 contents, batches of up to two changes (replace, create, delete), 2 directories, 2 faults, a committed journal that cannot be removed among them | `AllOrNothing`, `UndoInformation`, `UndoOnlyOwnWork`, `OutcomeTruthful`, and the inductive invariant `IInv`, under crashes anywhere, a crash during the recovery of a crash included |
| `sessions` | 2 sessions, 1 file, 2 directories, 1 fault: a crash, a failing rollback, a directory that is not removed or a late fsync error | `CommitEnds`: sessions that take each other's directories away never stop a commit or recovery from ending |
| `jobs` | managers one after the other, 2 files, 2 submissions, 1 kept job and history line, 1 crash, any changes of workspace, 1 call that raises, fair threads | `HistoryTruthful`, `InterruptedIsOver`, `RunningCancelStops`, `LedgerSpec`, `SourcesProtected`, `JobEnds` |
| `switch` | 1 browser tab, 2 managers, 1 job, no fault | `CleanupSparesActive` **fails** (finding) |
| `exports` | 3 exports of 2 signatures, 3 rows, 1 report each, 1 failing dispatch | `CancelWins`, `OneRunPerRequest`, `EndIsFinal`, `ResultsClaimable`, `ResultsHandedOver` |
| `away` | 2 exports, 1 row, 2 changes of project, fair threads | `JobSettles`, eviction included |
| `trust` | 1 session beside any writers, 1 package, 2 signatures of which one expires, 2 reviewers (2 and 1 decisions), 1 revocation, 2 seconds | `NoStandingObstacle`, `ChainOfPromotions` |
| `activation` | the same, 1 signature | `ActiveWasPromoted` **fails** (finding) |
| `interpretation` | 2 sessions (administrator, reviewer), 2 intervals of 2 marks, 2 revisions, stacks and event list of 2, 5 calls, 2 seconds, 1 crash, failing call or unreadable index; workflow moves and restores overlap | `DocumentSpec`, `TrailUnbroken`, `IndexNearlyTruthful` |
| `published` | the same with one call after the other and no fault | `PublishedRevisionExists` **fails** (finding) |
| `datasets` | 2 sessions, each of which makes any call beside any of the other, 3 datasets, 1 file name, 2 contents, 2 failing steps or unreadable manifests, 1 crash | `ArtifactsIntact`, `CatalogGrounded`, `CatalogComplete`, `LineagesLinear`, `RecordsRegistered` |
| `types` | 3 types of which 2 are defaults, 2 files, 2 marks, 2 operations, a journal of 1, 1 other change, 1 failing write or crash | `FailureAtomic`, `UndoExact`, `DeletedUnused`, `JournalBacked` |

Why these bounds are enough. *Journals*: two changes are the least for which a batch can be half
done, two directories the least for which a recovery has an older journal next to the commit's own,
two faults the least for which a recovery is interrupted; the proofs remove the bounds altogether.
*Jobs*: there is one worker per manager, so one job waits and one runs; two submissions with one kept
job and line make trimming and pruning drop what another job's end needs, one call that raises may
fall anywhere, and a session may change its workspace any number of times. Managers come one after
the other in `jobs`, because two at once are too many states for a liveness property; the theorems
have any number at once, and `switch` has the two that one tab makes. *Exports*: two signatures and three
jobs give a duplicate, a queued and a running job together; one row in `away` makes each new
export evict an older one. *Trust*: two decisions of one reviewer are needed for a decision to be
replaced, two signatures for one to expire while the other is revoked; sessions meet only
in the files, and everything another session could write between two reads is an action of its
own there, except a promotion, for which the theorem covers any number of sessions.
*Interpretation*: five calls are a command of each session, an undo, a redo and one call between
them, or the way from draft to published with a revision; stacks of two are filled and dropped from.
*Datasets*: three datasets give an upload and two versions of it, or two openings and a version;
two contents under one name give the second place for a file and the race for the first; two
failures let a failed opening fail to delete its record; names, sessions and contents are
interchangeable, so that a second name would only add registrations that do not meet. *Types*: the second operation pushes the first one out of a
journal of one; two files are the least for which a reassignment can be half done. The proofs
remove the bounds of *datasets*, *types* and *interpretation* altogether.

Deadlock is checked in the runs of `RepositoryTransaction`. The other cfgs turn it off: when the
bounds are used up (submissions, calls, names, changes) and every thread is idle, nothing is left
to do.

Fairness. `RepositoryTransaction`: weak fairness of each session's commit and recovery steps
(operating system threads that hold no lock for each other) and of opening after a crash (someone
starts the application again). `ImportJobs`: of the constructor's recovery, the worker thread and
the thread that serves the user's call; none of what users decide. `BackgroundExport`: of the worker
and of the script, which never waits for an export. No action is strongly fair. The other
modules have no liveness property: a call is sequential code, and nobody is bound to make one.

## Proofs

### RepositoryTransactionProofs

For every set of files, contents, batches, names and number of crashes:

- `TypeCorrect`: `Spec => []TypeOK`
- `Invariance`: `Spec => []IInv`
- `AlwaysRecoverable`: `Spec => []UndoInformation`
- `RollbackKeepsOthersWork`: `Spec => UndoOnlyOwnWork`
- `Atomicity`: `Spec => AllOrNothing`, the refinement of `AtomicUpdate`
- `AnswersTruthful`: `LatePublishFault = FALSE => (Spec => OutcomeTruthful)`

Assumptions, each named in the module: `SingleSession` (one session uses the root),
`RecoveredFirst` (`LazyRecovery = FALSE`: it recovers before it edits), `RollbacksSucceed`
(`RecoveryFaults = FALSE`: no rollback fails, and the directory of one that is over can be removed,
while a committed journal may stay), and `NullJournal` (the absent directory is none of the journals).
Without the first three the theorems are false, as the weaknesses below show: `rmtree` ignores errors,
and a rolled-back journal that stays is rolled back once more at the next recovery, over whatever was
saved since; so is `AnswersTruthful`
when the `fsync` after the committed manifest may fail, which is why that hypothesis is in the
statement.

The safety properties are not inductive: nothing in them links the manifest to the index a
session has reached. `IInv` adds that. It says where journals can be (there is at most
one, and its session knows it or is down), that the batch is known while it is committed, that every unfinished
journal can be recovered (`Recoverable`), and, for each phase, what is true of the files and of the
directory at index `pos`: while staging, backups exist for the entries done and nothing has
changed; while applying, entries before `pos` are new and those from it on are old and staged; while
undoing, entries after `pos` are old again; while removing, the rollback or the commit is complete.
There is one step of the proof per action, and under it one per conjunct the action can disturb.
`AnswersTruthful` needs one more invariant, `AnswerKnown`: when a journal is about to be removed, the
files hold already what the caller will be told, and a journal a commit is to roll back was not published. Each
step that ends a call then gives the answer that the way to the end has fixed (`LeaveKnows`,
`AnswerStep`).
For the refinement every action but `Edit`, `Begin`, `WriteCommitted` and the ends of commits is
shown to leave `Logical` and the batches alone.

### ImportJobsProofs

`TypeCorrect` is `Spec => []TypeOK`. The other theorems are about any number of managers, jobs, files,
crashes, changes of workspace, prunes and calls that raise: `HistoryCorrect` (`Spec =>
[]HistoryTruthful`), `InterruptedStaysOver` (`InterruptedIsOver`), `CancelWorks`
(`RunningCancelStops`), `CleanupSpares` (`SourcesProtected`) and `LedgerRefined` (`LedgerSpec`, the
refinement of `JobLedger`). They have no hypothesis; what the code does not promise is in the
properties themselves: they speak of the time before a manager is built beside one that is in use or
at work (`overlapped`), which one session brings about by changing its workspace while a job runs, and
`LedgerSpec` of the time before a call raises. After such an overlap they are false: the new
manager's constructor says that the live job was interrupted, the old worker writes that it
completed, and a cleanup removes the job's files (run `switch`).

The invariant is `OneAtATime`: the state is typed, and there was an overlap or one manager is alone
(`Alone`), all others being `Inert`: down or left, with nothing queued and nothing at work. `AloneStep` shows
that it stays alone or gives way to one that is built once it has come to rest, which takes over
what it left on the disk. What holds of the manager that is alone, `SessionInv`, has five parts, each
needed by the next ones:

- `QueueInv`, the executor and the job table: what is queued has status `queued`, is queued once and
  is not what the worker is at; the job of the worker is active until `Finish`;
- `FileInv`: how far `jobs.json` may be from the table;
- `HistoryInv`, about everything said of a job: the lines in the file, the lines a prune holds and
  the line a thread has yet to append. There is one gap it allows: a crash or a failing write after the
  `interrupted` line and before the write of `jobs.json`, which makes the next start append that line again;
- `CancelInv`: a cancelled job on its way through the loop of `run_batch_import`;
- `StagingInv`: the cleanup, from the set of referenced files it collects to the files it unlinks.

For each action one lemma states its effect and another that it keeps the five parts.

### BackgroundExportProofs

For every value of the constants, changes of project and failing commands included: `ExportsTyped`
(`TypeOK`) and `CancelAlwaysWins` (`CancelWins`). The inductive invariant `RunInv` is `TypeOK` and
four parts: `Numbered` (jobs and dicts that are not made yet appear nowhere), `OnePlace` (a job is
queued once or with the worker, never both), `Reachable` (of a job that is queued or at work:
`cancel` finds its event, its future too unless `submit` is about to store it, and no dict and no
copy a rollback may put back says that it ended) and `Cancelled` (a cancelled job on its way out:
its event is set, it has no file, and no dict and no copy says that it completed). `Reachable` is
why the constructor's recovery, which looks without the lock, orphans no job that runs, and why a
cancel always finds an event to set.

`EndsStayFinal` (`EndIsFinal`) is for a session that stays in its project (`MaxReopens = 0`):
`StayInv` says that one manager serves one dict, which has one row per job. A second manager makes
it false, as its recovery may write over the end of a job that ended while it was going through the
rows.

`OneRunAtATime`, `FilesClaimable` and `FilesHandedOver` (`OneRunPerRequest`, `ResultsClaimable`,
`ResultsHandedOver`) are for such a session with no more exports than a dict keeps (`MaxSubmitted <=
MaxSnapshots`): `ListInv` says that the list shows every job at work as active and every file as
completed. Past that number `_trim_store` may evict the row of a job that waits or runs, and its
request can be submitted again.

### SequenceDropProofs

`SelectSeq` is built into the prover, which knows nothing of it, so the models write the list
comprehensions of the code as the recursive function `Drop`. `DropLeaves` says what it leaves: a
sequence no longer than the first, whose members are those of the first that were not to go, none
of them twice unless the first had it twice. It is
proved by induction, from the least prefix that would be a counterexample (`Least`). The proofs of the
exports and of the revision index cite it.

### CalibrationTrustProofs

`ProductionRestsOnValidation`: `Spec => []ChainOfPromotions`, for any number of sessions, packages,
reviewers, signatures and dates, with no assumption beyond the types of the constants. The
inductive invariant `ChainInv` follows a call through the reads of `evaluate`: a state file that left
development cites a written record (`StatesCite`, because `promote` writes the record first), so does
every state a call has read (`HasRead`), a call asks for production only when the package had left
development and no write brings it back there (`Asks`), and a record about to be written is backed
already (`MayRecord`). The order of environments enters through `NextEnvironment`; reviews and
signatures play no part, nor does the order of equal timestamps.

`NothingOverlooked`: `Spec => []NoStandingObstacle`, again for everything and without further
assumptions. `ObstacleInv` has two halves. `LinearChains`: a reviewer's decisions for one package form
a chain with one end, and the end is the last record written; `submit_review` links to the end the
lookup finds (`ReviewStep`), so the code's `Decision` is the reviewer's `LastWord` even when dates
run backwards. `StandsNow` and `Cleared`: what stands against a call stands now and can only shrink while
the call runs, so a read that passes rules out its kinds of obstacle from there on
(`SignatureExcludes`, `ReviewsExclude`). Both depend on the abstraction that decisions of one reviewer
for one package do not overlap.

`TrustTyped`: `Spec => []TypeOK`. Most of the types are in the two invariants above; `PapersTyped` adds
those of the revocations, the active package and the final authorizations.

### InterpretationEditingProofs

`TrailAlwaysUnbroken`: `Spec => []TrailUnbroken`, with every kind of call overlapping every other. The
property itself is not inductive: a transition writes what it read before. `TrailInv` adds that the
workflow a transition holds is unbroken too and that it names a revision exactly when it leads to
`published`; appending an event keeps a chain (`Keep` of the last `EventLimit` events included), and
a write replaces the file whole, so that nothing of a lost transition is left in it.

`UndoAsPromised`: `EditsAlone => (Spec => DocumentSpec)`, the refinement of `UndoableDocument`, for any
number of sessions, stacks of any length, crashes, and any moves and revisions that overlap each
other. `SoloInv` says that a session in an edit, undo or redo is alone. It does not give the
refinement by itself: `AgreesInv` adds that what a session in an edit, undo or
redo has read still is what the file holds, so that the entry it records is the change it
made and the entry it takes back is the change it undoes. Without `EditsAlone` a session records
another's change as its own, and the refinement fails.

`IndexStaysNearlyTruthful`: `RevisionsAlone => (Spec => []IndexNearlyTruthful)`. `IndexInv` says for
each step of a capture, deletion or prune which one revision is out of step with the index because the
call is between its two files, and that no identifier is used twice; a crash or a failing write there
makes that one permanent, and nothing else does but an index that could not be read, whose rows are
in `forgotten`. `LoneInv` says that such a call is alone; two that overlap
both write the index they listed, and the later write drops the other's row.

`EditingTyped`: `Spec => []TypeOK`, with everything overlapping. `TypesInv` types what each kind of call
holds at each step, and the transitions' part comes from `TrailInv`.

Both hypotheses are those of the run `interpretation`, in which moves and restores overlap and the
other calls do not: the page of a Streamlit session runs a whole call in one script run, and the
code has no lock that would make them hold for two sessions.

### DatasetRegistryProofs

For any number of sessions, datasets, names, contents, failures and crashes, and with the steps of all
calls in any order: `ArtifactsAlwaysIntact` (`Spec => []ArtifactsIntact`), `CatalogAlwaysGrounded`
(`Spec => []CatalogGrounded`), `LineagesAlwaysLinear` (`LineagesLinear`), `CatalogAlwaysComplete`
(`CatalogComplete`), `RecordsAlwaysRegistered` (`RecordsRegistered`, for finitely many sessions, which
its count needs) and `TypesKept`. No theorem rules an interleaving out; the properties say, by the
ghosts, in which one an overlap has cost something.

- `RegistryInv` has three parts: a manifest's artifact is in place and holds its checksum
  (`ManifestsSound`), artifacts of a tagged path hold what the tag says (`ArtifactsSound`), and a call
  past each step has what that step provides (`CallSound`), its place still free or its own unless the
  name was raced for (`StoresAgree`). The catalog needs only that rows are added after manifests and
  manifests never go.
- `LineageInv` says that the versions of a lineage that is not `blind` are a finite line (`Line`) and
  that every call about to save has a dataset of its own and begins a lineage or continues one at its
  end (`InLine`).
- `CatalogInv` names who is about to show a dataset that the catalog lacks: the call that saved it, or
  the reconciliation that lists it; a reconciliation that is not `partial` is alone and brings
  everything back.
- `RecordInv` counts the records whose dataset nobody is going to save and whose deletion did not fail
  (`Orphans`); only a crash adds to them, and at most one for each session (`NothingOrphaned`).

### IntervalTypesProofs

For any number of types, files, operations, other changes, failing writes and crashes:
`FailuresAtomic`, `UndosExact`, `DeletedTypesUnused`, `JournalAlwaysBacked` and `TypesKept`. `Inv` says,
for each phase of the call, how far the files are: `ReassignInv` (the backup holds the start of every file the
operation touches, the other files still are as they were, so that putting it back gives the
start), `RestoreInv` and `UnrestoreInv` (files
put back are as they were, the rest as they were found), `JournalInv` and `BackupsInv` (an entry that is
not undone has a sealed backup of what `past` says), `OrphansInv` (which backups no entry names).
The two assumptions are those of the constants (`Parameters`) and that calls run one after the other.

### Only model-checked

Liveness: `CommitEnds`, `JobEnds` and `JobSettles`. They rest on fairness and `ENABLED`, which are out
of the prover's reach. Every other property of the passing runs is the statement of a theorem,
`IInv` of `atomic` among them. The three properties that the runs `activation`,
`published` and `switch` refute are, of course, proved by none.

## Where code and documents disagree

Three runs end in a counterexample, each to a sentence of the documentation or a comment; `findings`
in `PROJECT.json` quotes the lines.

1. `activation`: activation asks for a decision that is not final, and only final decisions require
   the promotion to production that the guide asks for.
2. `published`: deleting or pruning revisions does not look at `publication.json`; the published
   state then names a revision that is gone.
3. `switch`: a change of workspace leaves a running job behind; the manager built next calls it
   interrupted, and its cleanup removes the file the job still needs, although
   `docs/user/en/import_wizard.md:24` says that cleanup removes only what no active job refers to.

Three more sentences are contradicted by what the models do, without a run of their own:

4. `docs/PROJECT_PROGRESS_NEXT_STEP.md:573`: "Interrupted commits are rolled back automatically on
   the next repository access." They are when a transaction starts on their root or a revision
   repository is built there (`repository_io.py`, 402, and `interpretation_revisions.py`, 112), not by other
   reads and saves: `OpenWithoutRecovery` and `Edit` with `LazyRecovery`. A plain save in between is
   overwritten with the older backup.
5. `projects/interpretation_publication.py`, 5-6: "Approved and published interpretations are read-only
   for interval mutations until they are reopened." The restore of a revision writes the intervals
   whatever the status is (`CommitRestore`), the batch operations on types do too
   (`interpretation_interval_types.py`, 675), and an edit that passed the check before an approval
   comes through after it.
6. `services/las_viewer_open_workflow.py`, 111: "Validation must happen before project storage is
   mutated." A payload that is refused (163-168) has its record, artifact, manifest and catalog row by then;
   the record is deleted, the dataset stays (`RefusePayload`).

Known weaknesses that the models have beside these. No document promises the contrary, and the
properties of the passing runs allow for them or are about something else, but for one: `DeletedUnused`
takes every file to be readable (a number is a line of the file named before it):

Journals:

- `rmtree` ignores errors (478, 661): a rolled-back journal that cannot be removed is rolled back
  again at the next recovery, over newer saves.
- With two sessions on one root, the second session's recovery rolls back or quarantines the first
  one's live journal, and files of a batch can be left mixed.
- A failing `fsync` after the `committed` manifest is in place: the commit reports `rolled_back` and
  the files are new.

Jobs and exports:

- A cancel between the executor taking a job and the job's first locked step is overwritten with
  `running`; the job completes.
- A history line appended while `prune` rewrites the file is lost.
- Two managers at once, after a change of workspace during a job or in two tabs, write `jobs.json` over each
  other: a job that is called interrupted goes on and completes, the history gives it two ends, and
  jobs of the other manager disappear from the file.
- A job whose first or last write of `jobs.json` fails stays active for the manager's life time.
- After a dispatcher rollback the page shows rows that no worker updates; more than
  `MAX_SNAPSHOTS` newer exports evict the row of a running one, whose next report then raises.
- The export manager's constructor reads rows and futures without the lock; a job that a surviving
  worker completes in between is marked `orphaned`.

Calibration trust:

- `promote` checks the order of environments at its start and overwrites the state file at its end; a
  slower session puts a production package back to validation.
- A crash between the production record and the state file leaves a package for which every decision
  reports mismatched evidence and which cannot be promoted again.
- A reviewer who decides in two tabs at once makes a chain with two ends, between which timestamps
  choose.

Interpretations:

- Of two edits that overlap, the earlier save is lost, and a session may record the other's change as
  its own.
- A revision index that cannot be read is taken for an empty one, and the next capture or deletion
  writes it so (`interpretation_revisions.py`, 344). A failing write between a revision and the index
  leaves one of them behind.
- Of two transitions at once the later write wins, and an event can lead on from a status that is not
  the one the permission was checked for.
- Revisions of one second are listed oldest first, and pruning takes the newer one. Of two captures or
  deletions at once the later write of the index loses what the earlier one changed in it.

Datasets:

- Two sessions that store different files under one name at once can swap contents; two editors that
  pass the lineage check together fork a lineage; a reconciliation beside a registration loses a
  row until the next one. A manifest that cannot be read is passed over: the next version may continue
  an older one, and a reconciliation drops its row.
- A failing catalog write is reported as a failed import although the dataset is there; a retry
  registers it again. A record of the viewer whose deletion fails stays
  (`las_viewer_open_workflow.py`, 151).
- The editor registers each save as a version after the upload, so that the second save of one upload
  is refused (`app/streamlit_app.py`, 7295); its `finally` clause calls a name that does not
  exist (7315).

Interval types (`projects/interpretation_interval_types.py`):

- A crash in a reassignment leaves files half moved and a backup no entry names. After a crash or a
  failing journal in an undo, the files are back, but the entry stays open and every further undo is
  refused.
- A second failure while a failed operation is put back removes the backup all the same (772).
- Files that cannot be read do not count as using a type (425). Backups of operations that were pushed
  out of the journal are never removed. Edits that overlap a reassignment are overwritten.

Elsewhere, read and not modelled: the preferences of recent LAS sessions are one file that a second
session writes back whole (`services/las_viewer_recent_sessions.py`, 2927); a crash between the move of
an interpretation to the trash and the file that describes it leaves a directory restore cannot
name (`projects/interpretation_catalog.py`, 252, 298).

## Not modelled, and why

What is modelled is the code in which steps of several actors, failures and crashes meet. The rest
of the repository, which is most of it, is of other kinds:

- Calculations, petrophysical methods, geological modelling and rendering: floating-point or pure
  functions of their inputs, which TLC cannot evaluate and whose values no order of steps changes.
- Importers, previews and metadata scanners: parsers without state.
- Event bus, rerun coordinator, render queue, command framework: sequential within one script run.
- Workspace session, catalog of interpretations, correlation, recent sessions: whole-file reads and
  writes of one session's thread. With a second session the last write wins and nothing is
  promised; with one, their undo and bounds repeat the pattern checked for interval editing.
- Repository health and cleanup: reports, and deletions of what nothing refers to;
  `recover_quarantined_transaction` acts on directories that have left the recovery.
- The lineage of calibration packages: the code has no rule that holds there once sessions overlap; the
  hazard is listed.
- ZIP, signature and hash verification: predicates. The overlap policy of depth ranges: a pure check
  before a save. The UI: the calls it makes.

# workflow-canvas: TLA+ models, checks and proofs

`wfc` registers methods, composes them into pipelines and runs each step so that
a result is computed once. A pipeline is run by a snakemake engine that starts
one `wfc run-step` process per step; the canvas server, command-line users and
other pipelines work on the same project at the same time. What they share is in
four places: the SQLite index of runs, lock and record files under the project,
shared directories (code copies, cached outputs, sample views, draft folders),
and the project's git repository with the version lists of its methods. This
directory models the protocols over those four, checks them with TLC on small
instances, and proves the central invariants with TLAPS for every value of the
constants.

Paths below are under `src/`.

## 1. The system

| Component | State it keeps | Operations | Interacts with |
|---|---|---|---|
| **claim** (`wfc/execution/claim.py`) | run rows: status, key, heartbeat, `cache_source_run_id` | `run_claim`, `_claim_key`, the hit rule, `_close_stalled_claim`, the heartbeat thread | other claims, only through the index and its partial unique index over running rows; code copies; lifecycle, which ends rows from outside |
| **run step, record** (`run_step.py`, `record.py`) | the step's phases, its sentinel and sidecar | claim, materialize, dispatch, collect, record | claim, cache, in-use records; the engine reads the sentinel |
| **code copies, in-use records** (`registration/registered_code.py`, `storage/in_use.py`, `storage/prune.py`) | copies under `.wfc/runs/code/<tree>/`, their stamps, in-use rows | `resolve_held_code`, `extract_version_copy`, `remove_if_unheld`, `prune` | every claim, listings, the canvas registry, cache status |
| **lock files** (`execution/pipeline_record.py`) | lock, takeover file | `hold_lock_file` | pipeline records, recovery |
| **pipeline lifecycle** (`pipeline.py`, `lifecycle.py`, `pipeline_outcome.py`) | the pipeline record, step rows, refused rows, the stored outcome | launch, `finish_failed`, `finish_succeeded`, `cancel_pipeline`, `fail_pipeline`, `store_pipeline_outcome` | the engine, the steps, canvas, recovery |
| **recovery and cancel** (`execution/recovery.py`, `canvas/recovery.py`) | none of its own | `assess_pipeline`, `close_out_pipeline`, `cancel_recorded_pipeline` | lock files, records, the owner of a pipeline |
| **readiness, cache status** | none (derived) | what would hit, what would run | index, cache |
| **drafts** (`execution/draft.py`, `draft_clearing.py`, `try_run.py`, `registration/draft.py`) | per draft one record of its latest draft run, its lock file, result folders; rows of `pipeline_runs` | preflight, `record_draft_step`, `settle_replacement`, `end_running_draft_steps`, Delete outputs, Remove draft, Register | pipelines, recovery, the user's commands |
| **push worker** (`storage/push_worker.py`, `blobs.py`, `cache_push.py`) | push status and attempts of outputs, blobs and samples | snapshot, mark, send, record; orphan reset; `wfc cache push` | the cache, the remote, prune |
| **cache, archive, integrity** (`storage/cache.py`, `archive.py`, `integrity.py`, `verify.py`, `resolve.py`) | content-addressed files and manifests, hashes of outputs, run archives | archive pass, `resolve_input`, `pull_again`, `cache_prune` | record, push worker, prune |
| **sample views** (`storage/restore.py`) | views of samples, their stamps, in-use rows | hold, check, restore, stamp, end of a pipeline | in-use records, prune |
| **registration** (`wfc/registration`) | per method a version list, a snapshot and version rows, in the working tree, in git and in the index | guard, plan, commit over HEAD, put in step, write rows | git, code copies |
| **environments** (`wfc/environments`) | images and interpreters | build, capture, check | run step |
| **orchestration** (`snakemake.py`, `engine.py`) | a Snakefile, an engine process | write, invoke, stop | pipeline |
| **graph, identity, lineage, contracts, export, layout** | none (pure) | expand, hash, describe | all |
| **canvas server and frontend** | one background thread per submission | HTTP routes over the above | pipeline, recovery |

### What is hard here

- *Interleaving in the index.* The claim compares, waits and inserts in several
  transactions; nothing but a partial unique index and compare-and-set updates
  keeps two processes from computing one result. The hit rule runs outside any
  transaction and its answer may be stale when it is used.
- *A late process.* A claim whose heartbeat stood still is taken over while its
  process may still live, and complete later.
- *Crashes.* A killed step leaves a running row, an in-use record, a lock file,
  a takeover file, half a removed copy; each must be taken over by somebody.
- *Ends from outside.* A cancel, a pipeline's failure and a recovery write the
  rows that a step writes too.
- *Best-effort endings.* Nearly every step of an ending prints what it raises and
  goes on; the pipeline record, which a recovery would start from, goes all the
  same.
- *Files that vanish.* Prune removes copies and outputs that a claim has read.
- *Several truths.* A version is in a commit, in a file, in git's index and in a
  row; the bytes of a result are in a run archive, in the cache and at a remote;
  a draft step is in a record, in a folder and in its pipeline's row. Each is
  written by itself.
- *git takes no lock of wfc's.* A commit is built on one HEAD and may land on
  another.

The full list, each at its line, is in `PROJECT.json` under `hazards`.

### What makes each component correct

- claim: a result that can be read is never computed again; a row that ended
  stays ended; a sentinel names a completed row; a dead claim does not block its
  key.
- code copies: a run executes a copy recorded under its own claim; prune takes
  no copy from a run; ended claims hold nothing.
- lock files: one holder at a time, named by the file; the lock is not lost.
- pipeline end: each registered target has one row when the record goes, unless the
  owner's ending raised; the stored outcome is the one of the rows; the reason of a
  cancel that killed the engine wins.
- outputs and blobs: nobody who moves bytes removes the last copy; a row says
  pushed only when the remote has it; the push command ends.
- sample views: no view is removed while a running step reads it, a stamp that
  matches is true, and the last pipeline to end leaves no record, nor a view that
  it could remove.
- registration: a version that was recorded stays; list, snapshot, git and index
  agree when everybody is done; what is committed is what was confirmed.
- drafts: a draft run in progress is not replaced; what was computed from a
  replaced run goes with it; a draft does not stay in progress for ever.

## 2. Plan

1. `RunClaim`, with the abstract `ResultOnce` it implements - done, proved.
2. `LockFile` - done, proved.
3. `CodeCopies` - done, proved.
4. `PipelineEnd`: owner, steps, cancellers and recoveries of one pipeline, over
   a lock that `LockFile` justifies, with the abstract `SettledOnce` it implements -
   done, checked and proved.
5. `OutputStore`: outputs and blobs through the archive pass, push workers,
   prune and a reader - done, checked and proved.
6. `SampleViews`: a view shared by pipelines - done, checked and proved.
7. `Registration`: versions of one method over a shared git - done, checked and
   proved.
8. `Drafts`: draft runs replaced, cleared and ended - done, checked and proved.
9. To come: restores outside a pipeline in `SampleViews`; pulls, renumbered lists
   and .gitattributes in `Registration`; chains of three in `Drafts`; directory
   entries (a manifest and its members) in `OutputStore`.
10. To come: pure operators, each against a reference definition: the status of a
    pipeline from its rows, the expansion of a pipeline document, the merge of
    runs into a lineage.

Every invariant, every action property and both refinements a run checks are
theorems; what is left to TLC alone is liveness (section 5).

One run holds all the properties that one instance can tell apart. A module's
other runs are there for another instance, or for something the code breaks.

## 3. The modules

### RunClaim (claim.py, run_step.py, record.py, lifecycle.py)

A step is one process, from `_claim_key` to the end of `run_step`. Its label
`pc` is the place in the code; the other step variables are the locals that
outlive a transaction (`known`, `hit_id`, the running row it waits on, the
heartbeat it saw, `refusals_without_a_claim`). A row is a value of each of
`status`, `rowKey`, `source` and `heartbeat`. One action is one SQLite
transaction, or one read outside a transaction: the write lock is what makes an
action atomic.

| Actions | Code |
|---|---|
| `ReadNewest`, `HitRuleMiss`, `HitRuleHit`, `InsertAudit` | the first half of `_claim_key`'s loop: newest completed run, then the hit rule outside the transaction |
| `ResultLanded`, `InsertRefused`, `InsertRunning` | the write transaction: a newer result sends the claim back, the unique index refuses, or the row goes in |
| `FindHolder`, `NoHolder`, `HolderEnded`, `SeeProgress`, `StallWindowPassed`, `CloseStalled`, `CloseLost` | waiting on a running claim and taking it over |
| `EndPhases`, `Beat` | the phases of the step, and the heartbeat thread |
| `RecordCompleted`, `RecordLostClaim`, `RecordFailed`, `RecordNothing`, `TouchSentinel` | the record phase |
| `Crash`, `FailPipeline`, `PickRunning`, `WriteCancelled`, `LoseOutputs`, `RegainOutputs` | what else happens to a row, a process and the outputs of a run |

`ResultOnce` is the abstract promise: per key a set of running computations
(at most one) and a set of intact results; a computation starts only while there
is neither, and a result comes only from the running one. `RunClaim` implements
it under the mapping `computing = RunningClaims`, `intact = Completed \ lost`.

Abstractions. A key is a model value: equal keys are equal results. Whether the
outputs of a run are all there is one bit (`readable`), which may go and come
back at any time. `lost` is history: rows whose outputs were missing at some
time; without it "computed once" would be false, as an output somebody deleted
has to be computed again. The stall window is a step a waiter may take when the
heartbeat it saw has not changed: real time is left out, so a stalled claim of a
living, slow process is included. The record phase of a failed run may or may
not write (it is best-effort in the code).

### LockFile (pipeline_record.py, hold_lock_file)

One lock path. A file is its maker, whether it names its holder yet, and whether
it is old (`AgeLock`, `AgeGuard`: time passes; a file is not old while the
process between two lines of the code is at work on it, as the stale age is
30 seconds and the code does nothing in between). Every system call that
another caller can see is an action: `Create` (O_EXCL), `Name`, `Release`,
`Judge`, `CreateGuard`, `Decide`, `UnlinkLock`, `UnlinkGuard`, and for a takeover file
whose waiter stopped, `JudgeGuard`, `ClaimGuard` (the rename), `Rejudge`,
`PutBack`, `Drop`. A process may stop anywhere (`Crash`), and one may have before.
`torn` remembers whether one ever did inside a takeover. Until then `MutualExclusion`
holds, of any number of callers; after it three callers break it (section 6), and
what remains is that the lock is not lost. A process identifier is never reused here.

### CodeCopies (registered_code.py, in_use.py, prune.py, claim.py)

One method version, its trees, claims that record a copy before they look at it,
readers that record nothing, and a prune. `Unlocked` is SQLite's write lock,
which prune keeps while it removes a copy (`remove_if_unheld`). The extractor is
step by step: look, rename into place, judge a copy that was in the way, remove a
damaged one, try again. `Disturbances` turns on re-registration, rows ended from
outside and prunes that die inside a removal.

Abstractions. One prune at a time. The resolver runs more than once in a claim
(key, verify, dispatch); the calls of the claim after the first are folded into
the phase `verify`, that of the dispatch is `dispatch`. An extractor's own
removal is one step, prune's is not. Renaming a tree onto a directory that is
empty for a moment, the drop of a stamp by a damaged copy's finder, the busy
timeout of the write lock and `sync_version_rows` are left out. The unrecorded
readers are `registration/listing.py`, `canvas/routes/registry.py`,
`execution/cache_status.py`, `execution/draft.py` and the listing call of
`execution/claim.py`.

### PipelineEnd (lifecycle.py, pipeline.py, pipeline_outcome.py, recovery.py)

One pipeline, from the start of its engine to the removal of its record. Three
kinds of actors meet: the owner (the process of `run_pipeline`), cancels
(`cancel_recorded_pipeline`), and the recovery threads of canvas servers. All of
them write the rows that the steps write too, and remove one record. `pc` is
where an actor is, and `after` where it goes on after `store_pipeline_outcome`,
which nearly every part of an ending calls.

| Actions | Code |
|---|---|
| `StartEngine`, `EngineRaises`, `RecordEngine`, `ProbeCancel`, `JudgeFailure`, `OwnerStops` | `run_pipeline`, `invoke_engine`, `finish_failed`, `finish_succeeded` |
| `FailRows`; `PickRunning`, `WriteCancelled` | `fail_pipeline` (one compare-and-set); `cancel_pipeline` (a read, then a write by primary key) |
| `WalkRead`, `WalkRefusals`, `WalkCancelled` | `_write_cancelled_rows`: what is missing, the refused targets, the others with their reason |
| `RemoveRecord`, `ReadRecorded`, `StoreOutcome` | the record goes; `store_pipeline_outcome` in its two reads |
| `OwnerEndingRaises`, `CloserEndingRaises`, `StoreRaises` | a flip, a walk, a removal of the record or a store that raises: printed by `finish_failed`, `finish_succeeded` and `run_pipeline`, which go on; past the lock in a close-out |
| `Announce`, `CancelLook`, `KillEngine`, `AskOwner` | a cancel: flag, lock, flag, kill, running rows, and the close-out when the owner is gone |
| `JudgeDead`, `CloseRead`, `TakeLock`, `ReleaseLock`, `CloserStops` | `assess_pipeline` and `close_out_pipeline` under the close-out lock |
| `StartStep`, `ClaimRow`, `ClaimFails`, `EndStep`, `EngineEnds` | the engine and its step processes, as far as rows go (`RunClaim` has their inside) |

The owner takes no lock. What keeps its walk and another's apart is that a closer
goes on only after the owner died, or after the record went; the close-out lock
keeps closers apart. The lock is one variable here, taken over when its holder
dies, which is what `LockFile` is about.

`SettledOnce` is the abstract promise, of somebody who sees only rows and the
record: while the pipeline is registered each target gets one row, an outcome is
written once and overturned by a user's cancel alone, and the registration goes
when every target has a row, when nothing was started, or when the owner has given
up. `PipelineEnd` implements it under the mapping `registered = record.there`,
`status = row`, `rows = RowCount`, where a second row counts as two, and `givenUp =
Owner \in cut`.

`cut` are the actors one of whose ending steps raised. An owner goes on from what it
raised, with the rows it has written by then: `finish_failed` prints what
`fail_pipeline` raises and then what the walk raises, `finish_succeeded` the walk,
`run_pipeline` the removal of the record and the last store. So the record may go
with targets that have no row and rows that still run: `RecordGoesLast` and
`SettlesOnce` say that this is the only way. A close-out that raises keeps the
record, gives back the lock, and may be tried again.

`Disturbances` turns on what else happens: the owner dies (`ownerStops`: at a
moment when its engine, if it runs, is in the record; `unrecorded`: at any
moment), the engine cannot be started (`engineRaises`), closers die
(`closerStops`), ending steps raise (`ownerRaises`, `closerRaises`). A step process
may always be killed alone, or fail to flip its row (`EndStep`), and then leaves its
row running: the rows an owner's `FailRows` is for.

Abstractions. A target has at most one row; a second insertion is noted in
`second` and changes no status. A kill ends the engine and its steps in one step:
the orphan that outlives it is a hazard with no property. The verdict of
`assess_pipeline` is that neither the recorded owner nor the recorded engine
lives and no step computes: windows of time and the reuse of process ids are
left out, and so is a kill that fails or raises. Draft steps, the archive pass, the sample
views and held samples a pipeline releases, the second `fail_pipeline` of a canvas
submission (it finds nothing left), targets whose method is no longer registered,
a record that cannot be written, and `backfill_pipeline_runs` are left out.

### OutputStore (collect.py, archive.py, push_worker.py, blobs.py, cache_push.py, prune.py, resolve.py)

Where the bytes of a result are, and who moves them. An output is written in its
run's archive (`kept`); the archive pass copies it into the cache (`object`),
commits its hash (`named`) and removes the copy; a push worker sends the entry
(`remote`) and records that (`push`, `attempts`). A blob (a pipeline document, an
environment) goes into the cache first and gets its row then.

| Actions | Code |
|---|---|
| `Save`, `Collect`, `Complete`, `FailRun`; `StoreBlob`, `EnterBlob` | a step's output, `run_collect`, the two outcomes of `run_record`; `store_env_content`, `enter_blob` |
| `ListUnarchived`, `TakeOutput`, `StoreCopy`, `RefuseChanged`, `RecordHash`, `RemoveFromRun`, `EndPass`, `ArchiverStops` | `archive_outputs` with `archive_one`: copy, commit of the hash, removal, each a step |
| `ReadOrphans`, `ResetOrphans`, `Rearm`, `Snapshot`, `Mark`, `Send`, `RecordPushes`, `NothingLeft`, `StopWorker`, `PusherDies` | the push worker of a pipeline and the loop of `wfc cache push`; outputs are written blindly, blobs by compare-and-set |
| `GuardRuns`, `ListArchives`, `RemoveArchives`, `ScanCache`, `SelectEntries`, `DeleteEntry`, `EndPrune` | `cache_prune --include-local`: what it leaves alone is decided once, the rest goes one by one |
| `ReadRow`, `CheckArchive`, `CheckCache`, `PullAgain` | `resolve_input`, `read_entry`, `pull_again` |
| `EditCopy`, `EditObject` | somebody edits a file wfc keeps |

`Scenes` says who acts in a behaviour and what may disturb it (`edits`, `stops`,
`busyPrune`). Without `busyPrune` a prune runs only while nobody is storing or
reading: nothing in the code sees to that, a user who prunes while nothing runs
does.

Abstractions. An output and a blob are one file; the manifest of a directory and
its members are left out, and so are samples' rows (they are pushed as outputs'
are), the transport, the recorded stat of an output and the views of an entry.
A remote is configured. A file is whole, changed or gone. Whoever edits a file
changes it; `NothingLost` says nothing of bytes a user changed.

### SampleViews (restore.py, in_use.py, integrity.py, cache.py)

One sample, in a directory every pipeline of the project shares. A step records
its pipeline as a holder (`Hold`), takes the stat record of the files and
compares it with the stamp (`Compare`), hashes the files if it must (`Hash`,
`Restamp`) and restores them file by file if they are not right (`DropStamp`,
`Refuse`, `Place`, `TakeRecord`, `WriteStamp`); then it reads. At the end of a
pipeline (`KeepForOther`, `BeginRemoval`) and in a prune (`PruneView`) the view
is removed inside the write transaction that found no other holder
(`RemoveMember`, `Commit`, `RemoverDies`). A removal that raises an `OSError` on the
way is rolled back and its files stay as they are by then (`RemovalFails`); the
pipeline's records go all the same, in a transaction of their own (`Release`).

A stat record is of the files as they are now (`fresh`), or stale, or the files were
edited and it matches all the same (`equal`): the edit came within the step of the
filesystem's clock in which the record was taken, and carries the change time it
holds. `write_stamp` waits until the clock is past the record, so an edit after the
stamp is in place never does (`Touched`, `Outdated`); its docstring says that one
before may.

Abstractions. An entry of the cache is whole or out of reach (`Refuse`). A user
edits files at any time, only not those of a view that is being built: it is
read-only and its builder has it open. Steps whose check an edit overtook, or was
hidden from, are `spoilt` and nothing is said of them. A volume whose clock steps
slower than the code waits for (0.1 s) is left out. Whether `[integrity] inputs`
trusts stamps and whether views are hardlinks are chosen at the start. A restore
outside a pipeline records no holder, and is left out; what it does is in section 6.

### Registration (method.py, method_version.py, registered_code.py, git_commit.py, version.py)

Several processes register versions of one method. git is shared: `commits` are
those git made, `head` is the one HEAD names; the version list and the
snapshot's files are in the working tree (`diskList`, `files`) and in git's
index (`index`); the version rows are `rows`.

| Actions | Code |
|---|---|
| `Guard`, `Compare`, `Restore` | `restore_changed_snapshot`: a snapshot that is not its newest version's is put back and the registration stops |
| `Plan`, `Decline`, `Stage`, `Build` | `plan_method_registration`, the confirmation, `apply_method_registration` up to the commit |
| `ReadHead`, `Check`, `GitCommit`, `HookRefuses`, `CommitUnseen`, `Landed`, `TakeBack`, `CannotTakeBack` | `commit_registration` over `commit_over_head`: check, `git commit` and what it answers, look at the parent the commit got |
| `SyncHead`, `SyncList`, `SyncFile`, `SyncIndex`, `SyncCheck` | `_sync_to_head` |
| `Rows`, `ReadVersions` | `_write_registration_rows`, `sync_rows_in`, and the same by any reader |
| `Die`, `Edit`, `OtherCommit` | a registration killed anywhere, an edited file, a commit of the user's own |

Abstractions. A content stands for the code and environment fingerprints and the
tree git stores. An entry's `registered_at` is the registration and its attempt.
A plan is compared by what its token has: the fingerprints and the label of the
newest version (`StillPlanned`). A commit that git made and does not report, as
`git commit` did not end in time or printed no summary, is `CommitUnseen`; its maker
is refused and does not know of it (`unseen`). A reader of the versions syncs the
rows with a list it read at some time before (`listed`, `ReadVersions`).
The .gitattributes line a registration adds and takes back, the contract rows,
the first version of a module and renumbering after a pull are left out. A commit
carries what is below it (`past`), which git finds by following parents. The
version lists a project may start with are numbered from 1 without a gap
(`StartLists`): what registrations leave and a pull's renumbering restores.

### Drafts (draft.py, draft_clearing.py, try_run.py, pipeline_outcome.py, recovery.py)

A draft is a method folder that is not registered. A pipeline, or a `wfc try`,
can run it, and what it did is only in the draft's folder: a record of the
latest draft run (`runs`), a result folder (`results`), a lock file (`lock`).

| Actions | Code |
|---|---|
| `Launch`, `OwnerEnds`, `Die`, `BeginClose`, `EndRunning`, `Close`, `CutShort` | the preflight and the row, the end of a pipeline or a try, a death, the close-out with `end_running_draft_steps`, an ending part of which raises |
| `Materialize`, `TakeRecord`, `WriteEntry`, `MakeFolder`, `Compute` | `run_draft_step` and `record_draft_step`, at the start and at the end of a step |
| `ListDependents`, `ClearOne`, `CountLeft`, `Settle` | `settle_replacement`, `clear_draft_run`, `settle_cleared_pipelines` |
| `PlanDelete`, `ApplyDelete`, `BeginRegister`, `RefuseRegister`, `DeleteFolder` | Delete outputs, Remove draft and Register: plan, confirmation against a fresh plan, deletion |

`Outcome` is the status helper of `pipeline_outcome.py` over the draft steps.
`Dependents` is the closure down the chain of drafts, as the least set that
contains what reads a member of it.

An ending is best-effort here as well: what `end_running_draft_steps` or the store
raises is printed, and an unreadable draft store reads as no drafts. The pipeline is
then `cut`: its record is gone, a draft step may be left running and its row may say
so. The properties are stated with that exception, and say that it is the only one.

Abstractions. One step and one sample per draft. Steps die with their pipeline's
owner, never alone. A draft store that cannot be read is read as none at an ending
only; `backfill_pipeline_runs`, which a canvas server runs at its start, is left
out. Nobody dies with a record's lock in hand, and no living holder
keeps it for its stale age of 30 seconds, so the unlink by a waiter is left out.
The user deletes and registers only between steps (`QuietDeletes`): the code
removes the lock file and the record of a running step, as no delete looks
whether the draft is in progress. The run has a chain of two drafts. Adding a draft,
re-reading it and the snapshot of its pointers are left out. A `wfc try` runs one
draft, as a pipeline of one step (`DraftsAssumption`).

## 4. The runs

| Run | Instance | Shows |
|---|---|---|
| `claim_safety` | 3 steps, 1 key, 3 rows, heartbeats to 1, 2 refusals | `RunClaim` implements `ResultOnce` (`ComputesOnce`); rows that ended stay, sentinels and audit rows name results, heartbeats stop |
| `claim_live` | 2 steps, 1 key, a user's cancel, heartbeats to 2, 3 refusals, fair | the inductive invariant `ClaimInv`; `OneUsableResult`; `DeadClaimFreed`, `EveryStepEnds` |
| `lock_file` | 3 callers, a stale lock, a left takeover file, everybody may stop anywhere, fair | `MutualExclusion`, `HolderNamed`; the lock is not lost (`SomebodyEnters`) |
| `copies_all` | 1 claim, 1 reader, 2 trees, prune, every disturbance | `RunsHeldTree`, `PruneSparesRunning`, `EndedClaimsHoldNothing`, `CopyInv` |
| `pipeline_end` | a chain of 2 targets, 1 cancel, 1 recovery, every disturbance, fair | `KilledReadsUser`, `KillFailsNothing`, `BlamesEngineAlone`, `EveryPipelineEnds` |
| `pipeline_stops` | a chain of 2 targets, 1 cancel, 2 recoveries, owner and closers die anywhere, ending steps raise | the inductive invariant `EndInv`; `PipelineEnd` implements `SettledOnce` (`SettlesOnce`); `RecordGoesLast`, `StoredIsFinal` |
| `store_all` | 1 output, 1 blob, 2 attempts, a pipeline's worker, a quiet prune; with a push command and one pass, or with 2 passes, a reader and edits; processes die, fair | the inductive invariant `StoreInv`; `NothingLost`, `BlobsObtainable`, `CommandEnds` |
| `store_prune` | 1 output, 1 pass, 1 worker, a prune at any time | finding: a prune deletes what a row names and does not show pushed |
| `sample_views` | 2 files, 2 pipelines, one with 2 steps, edits, prunes, removals that die or fail | the inductive invariant `ViewInv`; `ReadsRegistered`, `StampTrue`, `LastEndRemoves` |
| `registration` | 2 registrations, 2 contents, 2 files, 2 attempts, 1 crash, 1 edit, 1 foreign commit, an empty list or one version | the inductive invariant `RegistrationInv`; `VersionsKept`, `InStep`, `ConfirmedOnly` |
| `drafts` | 2 drafts, one below the other; 2 pipelines and a try with a death; 2 pipelines with a death and an ending that fails; or one pipeline, a try, a death, an ending that fails and 2 commands of the user's, fair | the inductive invariant `DraftsInv`; `InProgressKept`, `NoStaleLeft`, `DraftFreed` |
| `drafts_try` | a pipeline and a try of the draft below it, a death, fair | finding: a killed try leaves its draft in progress for ever |

Bounds. Three steps are the least at which one waits, one takes over and the late
one completes; with three rows each inserts one. A heartbeat of 0, 1 or 2 is seen
moving or not. Two refusals are the least that add up, three are the code's. Two
trees are what a re-registration needs; the claims of `copies_all` meet only through
the records, and the proofs have any number. Two callers of a lock are what a wait
and a takeover need; a takeover file that is renamed away under its maker needs a
third. Two targets, one above the other, have every outcome a walk tells apart; what
is checked of them is proved of any targets, but for `EveryPipelineEnds`. Two
recoveries judge one pipeline dead, one waits
while the other closes out, and a cancel makes three users of the lock. One output
is enough for two passes over one row, which is where passes meet; a blob beside it
is written by compare-and-set. Two attempts tell a counted failure from the last
one. A sample of two files is seen half removed and half restored; three steps are
two of one pipeline and one of another. Two registrations commit over each other, a
third party is the foreign commit, and the proofs have any number; two attempts are the least at which a moved HEAD is read again; with
two files a snapshot is seen half replaced. Two drafts are a reader and what it
reads; three pipelines are one whose run is replaced, one that replaces it and one
that reads it. Deadlock is not checked anywhere: steps end, callers leave, and the
system may stop.

Fairness. `RunClaim!FairSpec` schedules each living process (`Claim`, `Record`)
and lets the phases of a step end (`EndPhases`: a method that never returns is
stopped by its engine or its user); crashes, outside ends and heartbeats need not
happen. A heartbeat that beats for ever is cut by `MaxBeat`; it belongs to a step
whose phases end. `LockFile!FairSpec` schedules every caller and lets time pass;
a caller leaves its block. `PipelineEnd!FairSpec` schedules each living actor, lets
steps that began end and the engine exit; nobody has to cancel, nothing has to
die, and a recovery looks again as long as its canvas server lives. What makes an
ending step raise does not last for ever (`<>[][~EndingRaises]_vars`): a recovery
whose close-out raises is tried again, as the code's is at its next pass. No
fairness is put on a choice a process makes. `OutputStore!FairSpec` lets a push worker that
started run on while its process lives; nobody has to start one, prune or archive,
and a transfer may fail each time: `CommandEnds` rests on the attempts running
out. It is stated of the time after which no pipeline's worker runs, as each
start of one re-arms the rows. `Drafts!FairSpec` schedules the living steps, owners
and clearings and a recovery of a pipeline whose owner died; nobody has to launch,
die or delete. `SampleViews` and `Registration` state no fairness: their
properties are about what is there when somebody has ended.

## 5. The proofs

| Module | Proves |
|---|---|
| `RunClaimProofs` | `TypeInvariant`, `ClaimInvariant`, `ResultComputedOnce`; `ClaimImplementsResultOnce`: initial states map to initial states, each step to a step of `ResultOnce` or a stutter; `HeartbeatStops`; without a user's cancel `EndedRowsKept`, `SentinelsNameResults`, `AuditsNameResults` |
| `LockFileProofs` | until somebody has stopped inside a takeover: `LockInvariant`, `OneHolder`, `HoldersNamed` |
| `CodeCopiesProofs` | `CopyInvariant`, `RunsHold`, `EndedHoldNothing`, `PruneSparesRuns`; without readers and disturbances `RunsKeep` |
| `PipelineEndProofs` | with every disturbance: `TypeInvariant`, `PlacesInvariant`, `EngineBlamedAlone`, `KilledForUser`, `RowsWaitForCancel`; without `engineRaises`: `RecordLast`; without `unrecorded`: `EndInvariant`, `OneRowPerTarget`, `EndImplementsSettledOnce` (initial states map to initial states, each step to a step of `SettledOnce` or a stutter); without both: `StatusFinal` |
| `OutputStoreProofs` | `StoreSafe`, `NothingIsLost`, `PushedNamesRemote`, `BlobsStayObtainable`, while prunes are quiet (`QuietPrunes`: no scene has `busyPrune`) |
| `SampleViewsProofs` | `ViewInvariant`, `StampsTrue`, `ReadersServed`, `ViewsRemoved` |
| `RegistrationProofs` | `RegistrationInvariant`, `VersionsStay`, `RegistryInStep`, `ConfirmedCommitsOnly` |
| `DraftsProofs` | `DraftsInvariant`, `StaleRunsCleared`, `InProgressRunsKept`, `RunningRunsKept`, when the user deletes between steps (`QuietDeletes`) |

They assume only the named `ASSUME`s of the modules (finite bounds need not be
small: any `MaxRuns`, any number of processes) and the side condition a theorem
states. The side conditions are where the code breaks the property: a user's
cancel, an unrecorded reader, an engine that cannot be started or that nobody finds,
a delete beside a running step (section 6 says how), and a prune beside others, which
the run `store_prune` shows. Other exceptions are in the properties themselves, next
to what they promise: a process that stopped inside a takeover (`torn`), an owner's
ending that raised (`Owner \in cut`), a draft pipeline's (`Cut`), a removal that
failed (`left`), an edit a stat record cannot tell (`spoilt`, `equal`), a commit git
did not report (`unseen`).

`OneUsableResult` is not inductive: two results could appear if two rows of a key
ran at once, or if a claim inserted a row while a result newer than the one it
judged was there. `ClaimInv` adds what rules this out: a running row is alone of
its key and every completed row of its key is older and was missing
(`RunningRows`), and what a claim knows between its read and its insert
(`KnownRows`): every row that still runs is newer than the newest result it
read, so a result that lands shows in the second look.

`MutualExclusion` rests on the guard's being the one waiter's inside the takeover
(`GuardsTaker`), on a maker having its lock (`LockKept`), and on the lock a taker
is about to remove being nobody's (`TakenIsGone`). That argument needs a waiter
never to stop inside a takeover: with three callers and a takeover file left behind
mutual exclusion fails (section 6). `LockInv` is proved; no run
checks it, `lock_file` checks what follows from it.

`CopyInv` says that from its resolution on a claim has its record (`HeldCode`),
and that a copy being removed has no live record (`RemovesUnheld`). `CalmInv`
adds that a copy is damaged only while prune removes it, so a claim in the
resolver, which has recorded its tree before it looks, finds a whole copy or none.
No run checks `RunsKeepCopy`: its theorem `RunsKeep` holds of claims and prunes
alone.

`NothingLost` rests on what each process may rely on when it acts: a pass that
removes a copy has committed its hash, and one that commits a hash has placed the
object (`ArchiversSafe`); a worker reports only what the remote has
(`PushersSafe`); a reader that sets a damaged object aside pulls it because the
row it read was pushed, which stays true of the remote (`ReadersSafe`); a prune
spares what has no hash and deletes what every row shows pushed (`PruneSafe`),
which holds to the end of the prune because nobody stores beside it.
`PushedIsRemote`, a conjunct of `StoreInv`, is why a blind write of a push status
does no harm to outputs: the remote loses nothing, so a status that goes back to
`failed` costs a second push. A blob's `pushed` must not go back, as its object may
be pruned by then: hence `BlobsObtainable`, and its compare-and-set.

`OneRowEach` rests on who may walk. `Over` says that the engine has ended or will
not start, and never becomes false again; until then a step that has not claimed
has no row (`FreshSteps`). A closer past its verdict walks only when it is `Over`
and the owner is dead or the record gone (`CloserPlaced`), the owner only when
its engine has ended (`OwnerPlaced`), and one closer has the lock: so one actor
walks at a time (`OneWalks`), and what it read is still so when it inserts
(`RowsKnown`). That a verdict or a cancel finds the engine is `EngineFound`: an
engine whose owner died is in the record, and in what a cancel at work read.

`SettlesOnce` is what that amounts to for somebody who sees only rows and the
record. A running row, however it ends, ends by one compare-and-set (`EndStep`,
`FailRows`); `WriteCancelled` has none, and is the only step that may overturn an
outcome, of rows the cancel read as running (`RowsFirst`). A walk writes where
nothing is (`RowsKnown`) and only while the record is there: once it is gone every
target has its row, or none has and nobody walks, or the owner's ending raised. The
second happens when the engine could not be started, and needs an invariant of its
own (`NeverStarted`), which holds with every disturbance: with the owner alive
nobody else closes out, and a closer that comes later finds nothing to do. So
`SettlesOnce`, unlike
`RecordGoesLast`, is proved of engines that cannot be started too.

What else is said of a pipeline's end needs less, so most of it is proved with every
disturbance. `PlacesInv` says where each actor may be and what is written by then;
`RecordGoesLast` is a part of it. `BlameInv` adds that an owner that looks for a
failure has flipped the rows of steps that died alone and left none running, so what
it blames the engine for cannot change; an owner whose flip raised is the exception.
`KilledReadsUser` and `KillFailsNothing` rest on `KillInv`. A cancel about to kill
has raised the flag and knows the recorded engine (`LooksTrue`); as long as an
engine can be killed nobody closes out but for the user (`ClosesForUser`) and no
row is cancelled for another reason (`CancelledForUser`); after the kill whoever
walks does so for the user or finds nothing to write (`WalksForUser`), and the
rows that ran are the cancel's that killed (`RowsLeft`). `StoredIsFinal` rests on
`StatusKept`: the owner stores the outcome before it removes the record, and a
closer that changes a row later has still to store, or died; a store that raises is
the exception. That needs `EndInv`,
as a step that claims beside a walk would change a row nobody stores.

`ViewInv` says that whoever uses the view has a record of it and nobody who ended
has (`UsersHold`), that a removal found no other holder and no stamp comes back
meanwhile (`RemoverAlone`), that what a builder placed stays and a record that
becomes the stamp is of the registered bytes, or was hidden an edit (`Rebuilt`), and
that a view that was used and nobody holds any more is gone, or a removal of it
failed (`NobodysGone`). `StampTrue` and `ReadsRegistered` are
inductive on top of it, together: a step is let through by a stamp, and a stamp is
written for a step that looked at the bytes.

`RegistrationInv` carries what a reader of `commit_over_head` and `_sync_to_head`
has to keep in mind. A commit keeps the versions of the list it was built on
(`CommitsOrdered`), so an entry is lost from HEAD only where a commit was built on
another HEAD than it landed on: a misplaced one, whose maker still has to take it
back, is dead, has said so or does not know of it (`UndoingAnswered`). A version
that landed is therefore in every list of HEAD's history above it, up to a misplaced
commit (`CommitStays`): `VersionsKept` is that at HEAD. That the list on disk is not
lost when HEAD holds none is `HeadListed` and `ListStays`. `OutOfStep` is why the
registry ends in step: where disk, index or files differ from HEAD's somebody has
yet to write them, wrote for a HEAD that has moved and will look again, or will
never finish (`Behind`); `Settled` excludes each. Labels are positions (`Numbered`),
which is why `RowsDistinct` survives a list that loses an entry and gets another of
the same number, provided the row of the lost entry gives up its label; a reader may
put rows back in step with a list that is no longer on disk, and only a numbered one
ever was (`listed`). `ConfirmedOnly` is inductive on top of `Sourced` and `Made`:
who has made a commit is past its plan. It speaks of the newest version a
registration read when it checked its plan, which the plan's token ties to the plan
by its label alone (section 6).

`RecordsInv`, the first part of `DraftsInv`, says that a record is its pipeline's,
and that a running one has somebody who will end it: the step that has it in hand,
a recovery, or its process died, unless its pipeline's ending was cut short
(`RecordsOwned`); that no step of a pipeline whose
row says ended is still to write (`RowsTrue`); that whoever writes a record has its
lock and knows what it replaces (`LockHeld`); and that a clearing touches only
pipelines that wrote something (`ClearsStarted`), which is why the status it stores
is not that of a pipeline yet to begin. `RunningKept` follows: the writer judged
the record under the lock it still has.

`InProgressKept` adds the pipeline's row. The writer judged the row as it was when
it took the lock, and the row may change before it writes: a clearing stores the
outcome of a pipeline whose owner has not ended, and `ended` goes back to
`running`. So the property cannot be that the row of a replaced run does not say
running; it is that such a pipeline has no step to begin. `ReplacesEnded` carries
that from the judgement to the write: what has written stays so (`WrittenStays`),
and a row that is gone does not come back.

`NoStaleLeft` rests on `StaleFound`: a record that names a run that is gone is
late, or on somebody's list, or somebody is about to list it, or died at it. When
the run goes, the dependents are listed from records that say what was read
(`OwnInputs`, `ReadsNamed`); a record written in between by a step that read the
run before is late; and the step lists after its own entry is written, while a
delete lists before and no record moves until it has removed the draft's
(`ClearsBelow`, `DeletingQuiet`). A listing leaves out the records of the pipeline
that replaced: none of them can name the run, as a step reads what its own
pipeline's step above has just done (`ListFinds`). The statement is of top drafts,
the ones that read no other (`Tops`), with any chain below them. It is false of a
draft in the middle of a chain of three, which somebody else's clearing may remove
by name (section 6); `ClearsBelow` says that no clearing removes a top draft.

Only model-checked, and why.
Liveness (`DeadClaimFreed`, `EveryStepEnds`, `SomebodyEnters`,
`EveryPipelineEnds`, `CommandEnds`, `DraftFreed`) stays with TLC, as temporal
reasoning under fairness and `ENABLED` are out of the prover's reach, and so are
induction over data and recursive operators; no module declares one.

## 6. Findings

Each is a run that TLC must find violated; `PROJECT.json` quotes the line the
code disagrees with.

- A prune lists the cache entries first and reads what rows need of them then,
  both once. An archive pass that placed its object before and commits the row's
  hash after loses the object, and removes the run archive's copy: the row names
  bytes that are nowhere (`store_prune`; `wfc/storage/prune.py`,
  `prune_dvc_cache`).
- A killed `wfc try` leaves its draft step and its row running. It has no pipeline
  record, so no recovery finds it, and a cancel refuses it with "nothing to
  cancel"; the draft refuses every later run, which it tells to wait or to cancel
  it. Only deleting the draft frees it (`drafts_try`; `wfc/execution/draft.py`,
  `_pipeline_running`).

Seen while modelling, and stated by no run. What breaks a property is kept out of
the runs and the proofs of that property by a constant, or is an exception the
property states, as said above.

Claims, copies and locks:

- `cancel_pipeline` (`wfc/execution/lifecycle.py:570-600`) reads the running rows
  and writes them by primary key later, so it flips a row that completed in
  between; its docstring says it marks in-flight runs. `EndedRowsStay` is stated
  without a cancel.
- Two of three callers of `hold_lock_file` may be in the block at once, after a waiter
  stopped inside a takeover (`_remove_stale_guard`,
  `wfc/execution/pipeline_record.py:225-244`). One judges the left takeover file
  stale; another removes it, makes a fresh one and decides inside it; the first
  renames that one away; until it is put back the third makes one more and decides
  too. The late one of the two that decide removes the lock the early one has just
  made. Lines 290-292 say "one waiter at a time decides and removes it, so two waiters
  never both take it". That is why `MutualExclusion` is stated
  of `~torn`: without that condition TLC finds this behaviour with three callers and a
  left takeover file, and finds none with two callers.
- A reader of a code copy, which records nothing, judges a copy that a prune is
  removing as damaged and removes whatever is there later
  (`wfc/registration/registered_code.py:550`): a copy that a claim extracted and
  launched meanwhile.
- `refusals_without_a_claim` (`wfc/execution/claim.py`) counts over the whole life
  of a claim, so refusals that are each explained by a claim that left meanwhile
  add up to an `IntegrityError` at the third. In `RunClaim` that raise is one of
  `NoHolder`'s outcomes.
- A claim killed between writing its in-use record and inserting its row leaves a
  record bound to no run, and its copy is kept from prune for ever (the docstring
  of `wfc/storage/in_use.py` says so).

The end of a pipeline:

- A cancel that comes before the engine is in the record kills nothing, and the
  owner starts the engine after it: its steps run
  (`wfc/execution/recovery.py:640`).
- An engine that cannot be started skips both endings: the record goes, no row is
  written, and the pipeline is stored as succeeded
  (`wfc/execution/pipeline.py:388`). `RecordGoesLast` is stated without it.
- The owner prints what its flip of the running rows and its walk raise, and goes on
  (`wfc/execution/lifecycle.py:426-447`, `504-509`); `run_pipeline` removes the
  record all the same. Targets may stay without a row and rows may stay running, with
  no recovery to come, where `wfc/execution/lifecycle.py:1126-1128` says that every
  expected target ends with a row. `RecordGoesLast`, `SettlesOnce` and
  `BlamesEngineAlone` say that nothing else leads there.
- An owner that could not remove the record leaves it to the recovery, which does
  nothing about it before the owner's process is gone.
- A cancel announced after a close-out read the flag waits for the lock, and the
  targets read `interrupted`, although `wfc/execution/recovery.py:33-35` says the
  cancel's reason wins whichever takes the lock first.
- A closer that dies between the removal of the record and its last store leaves
  the pipeline stored as `running`, and no recovery's candidate, until
  `backfill_pipeline_runs` at a canvas server's next start. `StoredIsFinal` is
  therefore stated of closers that live.
- An owner killed between the start of its engine and its recording leaves an
  engine that nobody finds; a recovery may then write rows beside its steps.
  `OneRowEach` and `SettlesOnce` are checked and proved without that (`"unrecorded"`).
- A closer removes the run directory it made for the lock file while another
  waits for that lock; the waiter makes it again. Directories are not modelled.

Outputs and samples:

- `prune_run_archives` without `--all` removes the folder of a run that has no
  output row yet, and the runs it leaves alone are decided before the user is
  asked.
- The push statuses of outputs are written blindly, and the docstring of
  `wfc/storage/cache_push.py` (lines 11-12) calls each a compare-and-set. It does
  no harm, as section 5 says.
- A second archive pass that listed a row before the first archived it may find no
  copy left and mark an intact output changed, unless collect recorded a hash
  (`RefuseChanged`; `wfc/storage/archive.py`, `archive_one`).
- `resolve_input` may return a path in a run archive that an archive pass removes
  before it is opened.
- A restore outside a pipeline (`wfc restore-sample`, `wfc verify --repair`, the
  restore of `wfc try`) records no holder, so the removal of a view can run
  beside it, and a stamp may be written of a view that is being removed.
- The removal of a view that raises an `OSError` leaves the view, and the holder's
  records go (the docstring of `end_pipeline_samples` says so): nobody removes the
  view until another pipeline uses it and ends. `LastEndRemoves` excepts it.
- A step may be let through with the wrong bytes when an edit came within the clock
  step in which the stat record was taken (the docstring of `write_stamp` says so),
  and a stamp may be written of such a view. `ReadsRegistered` and `StampTrue` except
  the steps and the stamps an edit was hidden from.
- `wfc/storage/in_use.py` says a pipeline killed for good keeps its records;
  `wfc/execution/recovery.py:534` ends them.

Registration:

- A plan that adds no version may be applied on a newest version that is not the one
  it was made on: `_check_still_planned` (`wfc/registration/method.py:1174-1185`)
  knows it by its label. A version synced from a commit that was then taken back off
  HEAD, and the version that got its label afterwards, pass for each other; it takes
  three registrations. Lines 1252-1254 say that the registration is refused then.
- A registration that is refused because `git commit` did not end in time, or printed
  no summary with the commit in it, leaves its commit on HEAD
  (`wfc/version.py:1430-1445`, `CommitUnseen`): neither path looks at HEAD. The
  message of the first says "Nothing was committed.", and the docstring of
  `apply_method_registration` that a refusal at any step commits nothing.
- A registration that starts between another's list and its files finds the
  snapshot changed, puts it back and stops, though nobody edited it
  (`wfc/registration/registered_code.py:8-10` speaks of changes outside wfc).
  The other's next step puts it in step again.
- A commit that landed on a HEAD that had moved undoes another's version until it
  is taken back; a process killed in between leaves it so
  (`wfc/version.py:1447-1461`). `VersionsKept` says exactly that and no more.
- A registration that gave up, was killed between its commit and its files, or was
  refused over a commit it made, leaves list and files behind HEAD, until the next
  one: the preconditions of `InStep`. A registration killed while it replaced files
  looks edited to the next.
- One registration of the same content beside one of a new version may commit the
  old tree over the new list's; the rows of the second may find their entry gone
  and leave its `git_commit` empty (`wfc/registration/method.py:1229`).
- One registration's refusal rewrites the .gitattributes another's commit put in.

Drafts:

- `_clear_dependents` (`wfc/execution/draft_clearing.py`) clears later drafts by
  name, from a list read before: it does not look again whether the record is the
  one it listed or whether its pipeline runs. The record of a running step goes,
  another pipeline may start in its folder, and a step whose record went makes a
  new one at its end, clearing the outputs it has just written: a completed entry
  without outputs. `InProgressKept` is about replacements, not about clears.
- A step that read a run before it was replaced and wrote its entry after keeps
  it: `late` in `NoStaleLeft`. In a chain of three drafts the clear by name takes
  the middle draft's run away and leaves what was computed from it: `NoStaleLeft`
  is of the drafts above every other (`Tops`).
- An ending goes on when it cannot end the draft steps
  (`wfc/execution/lifecycle.py:351-357`), and takes a store it cannot read for an
  empty one (`wfc/execution/draft.py:248-253`). The record goes, and a draft whose
  step it left running is in progress for ever. `DraftFreed` and `RecordsOwned`
  except the drafts of such pipelines.
- The lock of a draft record is unlinked by every waiter that waited 30 seconds
  (`wfc/execution/draft.py:153`), the second of them unlinking the first one's.
- Delete outputs removes the record and the lock file of a running step.

## 7. Not modelled

The map covers a small share of the implementation's lines, about a tenth. What
it covers is where several processes meet; most of the rest is sequential: it
changes state in one process's hands, or none.

- Environments: the state is docker's, uv's and conda's.
- Orchestration, the pipeline graph, identity: a Snakefile, an expansion and
  hashes. A key, a content or a hash is a value in every module, and the engine's
  choice among the steps it may start is free.
- Data movement inside a step: materializing inputs, running the container,
  directories and their manifests.
- Readiness, cache status, lineage, run bundles, export, contracts: read-only
  derivations, for pure modules that the plan names last.
- Persistence: migrations and the accessors; SQLite's write transactions are the
  atomicity of the actions.
- The canvas server's job table and routes, the frontend, the command line and
  the project's layout: they call the operations above.

`PROJECT.json` lists each component with what is left out of it.

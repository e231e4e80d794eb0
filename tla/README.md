# Verification of obsidian-livesync-headless

TLA+ models of the synchronisation core of this client, TLC runs over small
instances, and TLAPS proofs of the results that matter most for all instances.
Paths below are relative to the repository; `src/src/daemon/x.ts` is
written `daemon/x.ts` where no confusion is possible.

## 1. The system

The client keeps a directory of files (the vault) in step with a CouchDB
database that other LiveSync clients write as well. A note is one document that
names its chunks; a deletion is a document with `deleted: true` (a tombstone).
For every file that was brought in step there is a *provenance row* in SQLite:
path, remote revision, hash of the content. Whether a side has changed is decided
by comparison with this row. A *checkpoint row* holds the update sequence of the
database up to which everything has been taken care of.

| part | state | operations | hard behaviour |
|---|---|---|---|
| `daemon/continuous-engine.ts` | phase, grant, timers | start, rows and file events to hints, reports of workers, periodic passes, stop | events, workers and passes interleave at every `await`; crash and restart |
| `daemon/checkpoint-window.ts`, `storage/checkpoint-repo.ts` | tracked tokens with their state, the row | track, mark completed or failed, commit | reports out of order, late, repeated; the row is overwritten by passes |
| `daemon/file-worker-pool.ts` | queue, busy paths, dirty hints, waiting drains | enqueue, pump, end of a run, clear, drain | coalescing, overflow, exceptions, drain against running work |
| `daemon/changes-consumer.ts`, `reconnection-manager.ts` | position in the feed, timer | stream rows, reopen after an error | lost and clean ends of the stream, backoff |
| `daemon/fs-watcher.ts` | debounce timers | file event to hint | events for the daemon's own writes |
| `daemon/file-reconciler.ts` | none of its own: file, note, row, quarantine | reconcile one file | the user, other clients and a second run change every input between two awaits |
| `domain/sync-coordinator.ts`, `sync-plan.ts`, `rename-detector.ts` | none of its own | one pass over all files: read, plan, apply | inputs are minutes old when they are used; one step of several fails |
| `livesync/push-adapter.ts`, `deletion-writer.ts` | none | chunks, note, tombstone | refused base revision, lost answer |
| `filesystem/atomic-reflector.ts`, `quarantine-store.ts` | temporary files, quarantine | install, quarantine | replaces or unlinks what is there by then |
| `domain/auto-arm.ts`, `storage/write-grant-repo.ts`, `admission-repo.ts` | grants, admissions | trigger, wipe, pull, arm, verify | crash between steps, drift of the remote |
| `domain/pull-plan.ts`, `livesync/inventory.ts`, `decode-adapter.ts` | none | plan a pull, page the inventory, decode notes | undecodable notes, moving inventory |
| inspection, configuration, diagnostics, command line | none that synchronisation reads | report, parse, print | none |

How they interact: the watcher and the feed hand hints to the engine; the engine
tracks the feed's token in the window and puts the hint into the pool; the pool
runs `processInvalidationHint`, which calls the reconciler and reports to the
window; every report of success is followed by a commit to the checkpoint row. At
startup, on a timer and after an overflow the engine runs a whole pass of the
coordinator, and saves the position of the pass to the same row. All of this is
one Node process: what lies between two awaits is atomic, and everything else
interleaves.

What makes the parts correct:

- checkpoint: no restart loses a change that was not reconciled;
- pool: one worker per key, bounds kept, no request forgotten, a drain that ends;
- reconciler: the row says the truth, no revision of another client is replaced
  unseen, nothing the user wrote is destroyed unsaved, and both sides meet in the end;
- pass: the same for many files, with renames, from inputs read at different times;
- grants: no write without a grant that matches remote, vault and settings.

`PROJECT.json` lists every component with what is left out of it, and every hazard
at its line with the properties that watch it.

## 2. The modules

| module | models | role |
|---|---|---|
| `ContiguousCheckpoint` | | abstract: the saved position only moves forward and stays below everything outstanding |
| `CheckpointWindow` | `checkpoint-window.ts`, `checkpoint-repo.ts` | the operations of the window, shared by the next and the engine |
| `WindowReplay` | the window's callers | the window alone, under every order of reports, with restarts; implements `ContiguousCheckpoint` |
| `ChangesFeed` | `changes-consumer.ts`, `reconnection-manager.ts`, the engine's handling of both | extends `WindowReplay` by the stream behind it: breaks, clean ends, retries, stop |
| `SerialExecutor` | | abstract: one worker per file, requests are not forgotten |
| `FileWorkerPool` | `file-worker-pool.ts` | the pool; implements `SerialExecutor` |
| `ContinuousEngine` | `continuous-engine.ts`, `changes-consumer.ts`, the outside of `sync-coordinator.ts` | composes window and pool with feed, passes and lifecycle |
| `FileReconciler` | `file-reconciler.ts`, push, deletion, install, quarantine, provenance | one file in full detail |
| `SyncPass` | `sync-coordinator.ts`, `sync-plan.ts`, `rename-detector.ts`, `vault-scanner.ts` | passes over several paths, file by file |
| `AutoArm` | `auto-arm.ts`, `write-grant-repo.ts`, `admission-repo.ts`, `negotiation.ts`, the commands `daemon`, `sync` and `arm` | who may write, and the workflow that starts a vault over |
| `RemoteInventory` | `inventory.ts`, `decode-adapter.ts` | both readings of the remote, page by page, in a database that others write to |
| `PullCommand` | `pull.ts`, `pull-plan.ts`, `vault-preflight.ts`, `zero-mutation.ts`, and the reading of a pull-only pass | extends `RemoteInventory` by what is done with what was read |
| `*_proofs` | | the theorems about the module they are named after |

How they compose: `ContinuousEngine` takes the operations of `CheckpointWindow` and
`FileWorkerPool` and adds feed, passes and lifecycle; `ChangesFeed` is the detail of the one action
by which the engine receives rows; `FileReconciler` and `SyncPass` are the details of
the engine's workers and passes, and of the single step in which `AutoArm` lets a daemon
or `sync` treat a file; `PullCommand` is the detail of the pull inside the auto-arm
workflow.

### State and actions

*Window.* `sequenceQueue` is the array of the same name. A token is its position in
the feed: the code never compares tokens, the properties do. `checkpoint` is
`last_update_seq`; an absent row and `'0'` are both 0.

*Pool.* `pendingQueue` is the array; `activePaths` and `dirtyPaths` are functions
from paths to hints or `NoHint`. An action is the synchronous code from one callback
to the next await. The loop in `pump()` is described by what it shifts (`Shifts`)
instead of by recursion, so that it can be proved about.

*Engine.* `feed` is the history of the database; position n is its n-th change, and
`Listed` says that `_changes` shows a document at its last change only.
A catch-up pass is two actions: `BeginPass` reads the position and the inventory,
`EndPass` applies and saves. Which changes are lost by known flaws is
recorded in history variables, so that soundness can be stated exactly:
`applied` (brought into the vault), `concealed` (reported as done with nothing brought)
and `leftBehind` (checkpointed by a pass that did not apply them).
A run that returns success is two actions: `ReconcileSucceeds` leaves file and note in
agreement; `ReconcileConceals` does not. The second stands for the notes that do not
decode, which `reconcile()` takes for absent, and for the successes of `handleConflict` that
change nothing (`file-reconciler.ts:563-573`: the remote has no bytes or is a tombstone, or an
installation throws). `Kept` is the set of paths whose runs may end so; they may end
well, too, and a pass treats them as any other.
`Start` begins with a catch-up pass; `StartPulled` is the start after the auto-arm
workflow, which goes live at once (`skipInitialCatchUp`), with what that workflow has brought
into the vault.
`CATCHING_UP` covers `INITIALIZING`; `LIVE` covers `HEALTHY_BIDIRECTIONAL` and
`DEGRADED_READ_ONLY`, which differ in `ReadOnly`. `BLOCKED` is never entered by the
code. A lost connection only delays `ReceiveRow`, because the feed is reopened at
`currentSeq`: that is what `ChangesFeed` shows.

*Feed.* `stream` is what `consumeStream` is at (off, connecting, reading), `retry` the
timer of the reconnection manager, `attempt` its counter. The consumer's `start()` reports
an error by callback and resolves all the same; `settling` is the time between the two,
after which the engine takes the resolution for success. `ended` records that the server
closed the stream without an error, upon which nobody reconnects. `stopping` is
`isShuttingDown`: rows that arrive then move `currentSeq` on and are not tracked.

*Reconciler.* One file, its note as the list of its revisions, its row, and up to two
runs at once: local events are queued under the vault path and feed rows under the
document id (lower case or obfuscated), which are different keys of the pool. Every
await of `reconcile()` and of what it calls is a step: fetch, row and stat, read and
decide, put or install or copy or quarantine, row. Between steps users
edit, other clients write, requests fail, answers are lost, the process dies. CouchDB
is `Extends`: a write is accepted on top of the current revision only.

*Pass.* A pass is a record: `stage`, the inventory (`seen`), the two readings of
the vault (`hash` by the scanner, `bytes` for the push), the plan still to apply
(`todo`), the action in progress (`doing`). The first stages read file by file; every
action of the plan is one step per await: install and row, copy, unlink and row, push
and row, tombstone and row. `Planned` is the table of `buildSyncPlan`, `CaseRenames` and
`CrossRenames` are `detectRenames`. Two paths that differ in case only share a
document. Passes start from any state an earlier pass left, and follow one another.
`report` is what the last pass said if nobody disturbed it. `reflected` collects the
revisions whose content was in the vault, `unseen` those the client superseded without,
`misread` those it wrote from bytes other than the hashed ones. `Stored` is what a push
makes of a content: `pushFile` decodes the bytes as text, so that a note of one of the
`Binaries` cannot be decoded again (its size is that of the original), or holds another text
when the replacement happens to have the same size.

*Grants.* `markers` are the documents of the remote that a grant is bound to (version,
milestone, settings), `admission` the binding stored for offline starts, `issued` and
`active` the grants. The start of a command is in two actions, `Negotiate` (probe and
negotiation, started by `StartDaemon` or `StartSync`) and the use of its answers many requests later:
`AdmitDaemon` stores the admission, `VerifySync` verifies the grant and stores the
admission, each without an await in between. The markers change and `arm` runs in
between. The documents that one probe fetches with several requests are one reading.
A daemon that does not reach the remote goes on with the admission it finds (`StartDaemonOffline`). `CheckTriggerUnread` is the trigger
after a failure to scan the vault or to read the database, which counts as an empty one
and starts the workflow. The workflow probes, plans,
removes the vault file by file, removes rows, checkpoint and grants, pulls file by file,
compares, and issues the grant; it fails or dies between any two of these. `arm` runs
beside it. `unasked` collects why a tombstone was pushed for a file the user had
not deleted, `stale` whether the stored admission and the remote differed at some
time since the process stored it or, offline, found it stored.

*Inventory.* A document id is a number, which gives the collation order; a revision is
the update sequence that created it; a body is the set of its chunks, whose ids are their
content. A page is a set of rows: the first ones in the order of the id or of the change,
or all that are left if they do not fill it. A page of `_all_docs` is `startkey` with `skip=1`,
a page of `_changes` carries its position; a note has a set of leaves, and the losing ones are fetched one by
one by `GET ?rev`, which answers 404 when the leaf is gone meanwhile. `dropped`
is the history of rows that `skip=1` left out unread. Decoding is a second sweep, item by
item, and a chunk may arrive after its note.

*Pull.* One action per phase and per write: `BeginPull` (first snapshot), `Negotiate`, the
inventory, `BuildRecoverablePullPlan`, `PreflightVault`, then `InstallAtomically` and
`SaveProvenance`, or `QuarantineFile`, `UnlinkFile` and `DeleteProvenance`, for each
planned action, then `SaveCheckpoint` with the position of the first snapshot, and
`AssertNoMutation`. The snapshots are compared by update sequence; two of the four
markers whose revisions they also hold are `_local` documents, which change without it, and
so the comparison may fail at any time. `Interrupted` is any failure or crash. `BeginPass` and
`ReportPosition` are the incremental reading of a pull-only pass.

## 3. The runs

| run | question | distinct states |
|---|---|---|
| `window` | Under broken, ended and reopened streams and any order of reports: is a saved position ever above unverified work, and does the feed go on where nothing is left out? | 38 721 |
| `pool` | Is the pool serial, bounded, work-conserving, and does it serve every hint? | 3 902 |
| `engine` | Write mode: is the checkpoint sound through everything that can interleave? | 3 404 839 |
| `engine_readonly` | The same with incremental passes, two of which overlap | 1 979 599 |
| `engine_live` | Is every row taken in worked on, and does every change arrive although hints, rows and reports are lost? | 365 104 |
| `file` | Two runs of one file, user, other clients, faults: rows true, nothing superseded unseen, nothing read is lost | 840 126 |
| `file_serial` | One run at a time: no duplicate revisions, no step back, convergence | 144 965 |
| `pass` | Whole passes: rows true, nothing superseded unseen, convergence reported only when it is so, and an end to the work | 1 213 963 |
| `autoarm` | Are writes bound to the remote as it is, deletions explained, the position after an automatic start sound, and does a restarted daemon come up? | 710 052 |
| `pull` | Does the checkpoint cover what was read, is only what is proven overwritten, is nothing repeated, and is the position of an incremental reading sound? | 6 713 988 |
| `file_two_keys`, `autoarm_wipe` | disagreements of the code with its own documents, see section 6 | until found |

Bounds, and why they are enough:

- `window`: five tokens, so that a failed or late one can lie before, between and
  after completed ones, with a broken stream or a restart at every point.
- `pool`: four paths, two slots, a queue of two. The queue is full while both slots
  are busy, so overflow meets dirty hints, re-runs and drains. One waiting drain: the
  resolvers do not see each other.
- `engine`: three changes of two notes and of chunks, one slot and a queue of one, so that
  a third hint overflows; one local event, one fault, two starts, so that a restart
  replays what a crash interrupted. `p2` cannot be decoded, so that its workers
  report success and bring nothing. One pass slot: passes overlap in the next run, which also
  has a note whose workers may do either.
- `engine_readonly`: two pass slots, two changes; `p2` is in conflict and its runs may
  keep the file, `p1` has no case in the planner.
- `engine_live`: one start, two changes, three notes: one of them is in conflict and stops
  every pass, one has no case in the planner, and two of them have workers that may report
  success with nothing done. The property speaks of the time the daemon stays up.
- `file`: three contents, two of the user's edits and one write of another client,
  one fault, the daemon adds revisions up to the fourth. Two edits are needed for an
  edit during a run that answers an edit.
- `file_serial`: two writes of other clients, nine revisions: more than the daemon
  ever creates there (`NoDuplicateRevisions` bounds its writes by the edits), so the
  bound `MaxRevs` cuts nothing off.

- `pass`: a pair of paths that differ in case and a third path, so that both kinds of
  renames, and a new file of the same content, occur; three contents, so that row,
  file and note can all differ; from every synchronised state, one edit or rename, one
  write of another client and one fault at any point of any pass. One of the contents is
  no text, so that its push stores another one or a note that cannot be decoded.

- `autoarm`: two paths and a threshold of two, so that one missing file is below it and two
  reach it; two contents; three events in all (a write or a change of settings by others, an
  edit, an `arm`, a crash, a failed reading of vault or state), which is what the longest known history needs: wipe,
  crash, start.
- `pull`: two notes and two chunks, pages of two rows, so that both readings cross a page
  between two notes and between chunks and notes; bodies of either chunk or both, one of
  them unreadable; three writes of others or edits of the user. Two reductions are
  built into the guards: the user does not edit while the remote is read, and others do
  not write while the vault is treated. These steps commute with those left out,
  which read other state.

`CHECK_DEADLOCK FALSE` appears where the bounds let the system stop: the users rest and
nothing is left to do.

### Fairness

- `pool` (`QuietPoolSpec`): every run of the worker function settles (`WF` of its
  end), and no file changes during every one of its runs for ever (`SF` of an end
  without a re-run). Without the second, one file can hold its slot for ever:
  that is how the code is.
- `engine_live` (`FairPasses`): the timer fires while the daemon is up and a pass
  ends. Nothing is assumed about the feed, the watcher or the workers: the result
  says that passes alone are enough in write mode, as long as no note of the inventory is
  in conflict: one ends every pass before it applies anything
  (`domain/sync-coordinator.ts:279`, `Conflicting` in `EventuallyApplied`).
- `pass` (`FairPassSpec`): passes are started again and again (the timer of the daemon,
  or whoever runs `sync`) and a pass that is begun ends, by throwing at the latest.
- `autoarm` (`FairArmSpec`): every await of a command settles, and the daemon in automatic
  mode is started again and again (`README.md:37` and `:61` run it under
  `restart: unless-stopped`). The start needs strong fairness because an `arm`, a revoke or
  a change of the remote may disable it in between.
- `file_serial` (`FairFileSpec`): every await of a run settles and the pool starts a
  run for a waiting hint. Behaviours with a fault are excluded in the property
  itself (`faults > 0`): after a fault nobody promises a retry before the next pass.

## 4. What is proved

The theorems hold for all values of the constants that satisfy the named
assumptions (`TokensAssumption`, `PoolAssumption`, `EngineAssumption`, `FileAssumption`,
`PassAssumption`, `ArmAssumption`, `BindingAssumption`, `IdsAssumption`, `PolicyAssumption`);
these ask no more than that tokens and document ids are positive naturals, that limits
are positive, that sets of paths are finite and that marker values are not ordinary
values. The bounds on users, other clients and faults are constants too, so a theorem
holds for any number of them.

- `CheckpointWindow_proofs`: lemmas about tracking, marking and committing, used by the
  clients of the window.
- `ChangesFeed_proofs`, on the window alone (`WindowReplay`): `WindowKeepsContract`
  (refinement of `ContiguousCheckpoint`), `NothingIsSkipped`, `ReplayTypeCorrect`. The inductive
  invariant `ReplayInv` adds to the property that the queue is ascending, lies
  between checkpoint and consumer, and that a completed entry is verified. Without the
  order of the queue the property is not inductive: a commit takes the last token of a
  prefix for the greatest. `ReplayInv` is in two parts, `WindowInv`, which holds
  always, and `CaughtUp` (what the consumer has passed is tracked or verified), which a
  daemon that is stopping gives up.
  On the window with its feed: `FeedTypeCorrect`, `NothingIsSkippedByTheFeed`,
  `FeedIsAlwaysKept` and `FeedKeepsContract`, which are all the properties of the
  run `window`. `FeedInv` is `WindowInv` and, unless the daemon is stopping, `CaughtUp` and
  `StreamIsKept`; the steps of the window are taken over from the first part.
- `FileWorkerPool_proofs`: `PoolTypeCorrect`, `PoolIsSerial`, `PoolIsBounded`,
  `PoolConservesWork`, `PoolDrainWakes`, and `PoolServesLikeExecutor` (refinement of
  `SerialExecutor`). `PoolInv` is the conjunction of the invariants; the argument
  for a step is a lemma on `Pump`.
- `ContinuousEngine_proofs`: `EngineTypeCorrect`, `CheckpointIsSound`,
  `ReceivedStaysTracked`, `RowsBecomeRequestsHolds`, `EnginePoolServesLikeExecutor` and
  `EnginePoolIsSound`. The invariant `EngineInv` ties the parts together: completed tokens in the
  window are accounted for; everything received is accounted for or tracked; a pass in
  progress starts at a position the row vouched for (`PassInv`); a run in progress has
  seen at least the change its hint carries, which is one of its own document (`RunsInv`,
  `HintsInv`, both also parts of `EngineTypeOK`); before the daemon
  is live the window is empty (`QuietInv`). Each is needed by one action: the
  second by a commit after a coalesced hint, the third by overlapping passes, the last
  by the first pass. Both theorems on the checkpoint say what the code does and not
  more: a change that a worker reported as done with nothing brought is passed
  (`concealed`). `RowsBecomeRequests` is a property of steps: only `ReceiveRow` moves the
  consumer of a live daemon forward (`OnlyRowsAdvance`), and `enqueue()` with room in the
  queue starts a run or leaves one owed (`EnqueueOwes`).
  `EnginePoolServesLikeExecutor` and `EnginePoolIsSound` take the theorems of the pool over to the
  daemon that drives it: every step of the daemon is an operation of the pool, a `clear()`, or
  the end of the process (`EngineUsesPool`), so that the guarantees proved of the pool alone hold
  where it is used; what a crash loses is all that the abstract executor does not promise.
- `FileReconciler_proofs`: `FileTypeCorrect`, `ProvenanceIsSound`,
  `NothingIsSupersededUnseen` and `NothingReadGetsLost`, with one run of the file at a
  time or two. `RowInv` says of the row, and of the row as each run has read it, that its
  revision was in the vault and holds its content (`Sound`), and of each run what
  it may rely on at its step (`RunOK`): what it installs is live and readable, what
  it writes on top of is what its row says. A run's knowledge stays true because notes
  only grow (`Grows`), and its writes are safe because CouchDB takes them on top
  of the current revision only. `KeptInv` adds that the bytes of a run that is about to replace
  them are in the history, a copy or the quarantine. `NothingReadGetsLost` assumes
  `Binaries = {}`: a binary file is stored decoded as text, its bytes are not in the
  history, and the next pull replaces them (section 6).
  With one run of the file at a time (`Keys = {"path"}`, the case in which path and document
  id are the same string) the module also proves `NothingIsDuplicated` (`ownWrites <= edits`)
  and `FilesGoForward` (`InstallsForward`); `file_two_keys` shows that the second fails for
  two. `SerialInv` counts what the daemon owes: a write that can still succeed has an edit to
  answer, and one more if the file was edited since it was read (`Answers`); so has a file
  that differs from a row that is current (`Differs`), which is what a new run starts from.
  `Alone` says that the row a run has read is still the row, and older than the revision the
  run brings to the vault. A lost answer is harmless because it leaves a row that is behind
  the note, and such a row starts no push.
- `SyncPass_proofs`: `PassTypeCorrect`, `RowsTellTheTruth`, `NothingSupersededUnseen` and
  `ConvergenceIsInSync` (`ConvergedMeansInSync`), for any number of paths and renames.
  `SyncInv` says the same of all rows (`RowOK`), of the plan and of the action in hand: an
  action writes on top of a revision that was in the vault, or creates a note, and
  installs what a live revision holds (`Based`).
  `PlanOK` shows it of every case of the table and of both kinds of renames; it is what
  makes actions safe that are minutes older than their inputs. What a row may say of its
  revision includes what a push makes of a binary file (`Stored`), with nothing assumed of it.
  `ConvergenceIsInSync` needs a second invariant that follows a pass from its readings to its
  report, `SettleInv`. `NamedInv`, which always holds: rows and actions are about revisions
  written under a path's own name, and no other action of a plan concerns a path whose file an
  action writes (`Apart`). `Progress`, for a pass that nobody disturbed and that met no
  error: what it has read so far is still so; every path is either settled, so that a pass has
  nothing to do about it, or concerned by an action to come or in hand; the actions to
  come find vault and notes as the plan took them (`Ready`), and the one in hand is where
  its stage says (`Halfway`). `PlanCovers` shows that no path that differs is left out by the
  table or by the renames; `WriteLeavesSettled` and `WriteLeavesReady` that a write for one path
  spoils no other, although twins share a note. `Converged` keeps the report true
  through the next passes: all they can still plan is writes that CouchDB refuses (`Doomed`),
  such as the push of a new file over a note that cannot be decoded, or of a file over the
  note that its own push has spoilt. `SettleInv` was checked
  with TLC on the instance of the run `pass` before it was proved.

- `AutoArm_proofs`: `ArmTypeCorrect`, `WritesAreBound` (`WritesMatchTheRemote`),
  `TombstonesAreExplained` (`DeletionsAreExplained`) and `ArmSkipsNothing`
  (`CheckpointCovers`), for any number of paths, bindings, events and process ends.
  `ArmInv` says at which step of a command what has been established: which row a
  step may still rely on (`Positions`), which binding was probed or stored and whether the
  remote has kept it since the process took it (`Admissions`), what the workflow has brought into the vault by then
  (`Materialised`), and which files are gone for which reason (`Removals`). The
  properties alone are not inductive: the workflow saves the probed position many steps
  after the probe, and the grant is checked many steps before anything is written.
- `PullCommand_proofs`: `PullTypeCorrect`, `PullCheckpointIsSound`
  (`PullCheckpointCovers`), `OverwritesAreProvenHolds`, `RepeatsNothingHolds` and
  `ChangesCoverPositionHolds`, which are all the properties of the run `pull`, for any notes,
  chunks, bodies, page size and number of events. `PullInv` follows a note through the
  reading: if it has not changed since the snapshot, what was collected of it is all its leaves
  and nothing else (`Inventoried`, and `Followed` for the incremental reading, whose cursor takes the
  place of the snapshot); what was decoded once stays decodable, since chunks only arrive
  (`Decodable`); every such note is reflected or has an action in the plan (`Planned`); and
  a file without its row, or a row without its file, belongs to the action in hand
  (`InHand`). The paging is proved for a server that answers with the next rows
  in the order of a key (`FullPages`), which is what CouchDB promises.

Every safety invariant, step property and refinement of the passing runs is proved.
Model-checked only: the liveness properties (`HintsAreServed`, `EventuallyApplied`,
`Converges`, `Settles`, `ComesUp`), since the proof system covers neither `ENABLED` nor
fairness.

## 5. What is not modelled

- In `FileReconciler`: several leaf revisions of one note (CouchDB conflicts), the
  case-insensitive fallback of the provenance lookup, and missing chunks that
  arrive later without a change of the note. A hint is owed again to both keys after a
  crash, which is more than the startup pass and the feed give.
- In `FileReconciler` the content written by a user after a run has read the file is not
  protected by the code (the rename replaces what is there), and
  `NothingReadIsLost` does not claim it.
- In `SyncPass`: dry runs, pull-only passes and their incremental inventory, notes
  with several live leaf revisions, encrypted paths (whose tombstones name no path),
  a file that vanishes between its listing and its stat (the pass throws, as in
  `PassThrows`), and workers that run beside the pass. The inventory is one snapshot.
- In `FileReconciler` a binary file becomes a note that cannot be decoded. When its decoded
  text has the same size as the file, the code stores another readable text; only
  `SyncPass` has both.
- In `ContinuousEngine`: how a pass applies its plan file by file, and a pass that throws
  in the middle of it; whether a worker on an undecodable note with a local
  file fails (it does: its push is refused) or succeeds (the model lets it). What makes a
  conflict in the reconciler is data there: a path of `Kept` may meet one in any run.
- In `AutoArm`: what happens to one file (a single step), changes between two requests of one
  probe, the history of grants, reports and exit codes.
- In `PullCommand` and `RemoteInventory`: the codes of the blocks, paths that collide when
  case-folded and unsafe paths (they block like an unreadable note), tombstones of
  obfuscated paths, ignored paths, and chunks that the server loses again.
- Chunk uploads before the note, the temporary file on its own, the orphan cleanup
  and the retention of the quarantine; ignore rules and debounce timers; signals and
  exit codes; `inspect` and `status`, which read and report; the loop suppressor, which
  is constructed and consulted by nobody.
- Formats, cryptography, configuration, logging.

The reconciler gets out of all states but four without help, and `Converges` names
them: an undecodable note; a file that was re-created over a tombstone, or edited while
another client deleted the note (each push lacks the base revision); a conflict with a
remote note without bytes; and a hint that arrived during a run that threw.

## 6. Disagreements found

Shown by a run:

1. `daemon/file-reconciler.ts:193`: with one key per document id and one per path, two
   runs of one file overlap and a stale revision is installed over a pushed edit
   (`file_two_keys`).
2. `domain/auto-arm.ts:215`: the workflow empties the vault before it removes rows and
   grant. When the process dies in between, the next start finds fewer missing files than
   the threshold, with rows and a grant, and pushes tombstones for them
   (`autoarm_wipe`; `.planning/REQUIREMENTS.md:45` wants deletions to be the user's).

Seen while modelling, and named as exceptions in the properties or left out by a constant:

- `daemon/file-reconciler.ts:326`: a note that cannot be decoded counts as absent and
  as success, and the checkpoint passes it, against the comment at `:339-342`
  (`concealed` in `ContinuousEngine`).
- `daemon/file-reconciler.ts:563-579`: a conflict with a tombstone or an empty note changes
  nothing, an installation that throws there is swallowed, and either is a success: the checkpoint
  passes a change that is not in the vault (`Kept`, `concealed`).
- `domain/sync-coordinator.ts:279`: one conflict of any note ends every pass before it applies
  anything, so that hints lost by an overflow are not made up for as long as it lasts
  (`Conflicting`).
- `domain/auto-arm.ts:93-94`, `:129-134`: a vault that cannot be scanned is taken for an empty
  one and a state database that cannot be read for an empty state; either starts the
  workflow, which then removes the vault (`CheckTriggerUnread`).
- `daemon/continuous-engine.ts:383`: after a read-only pass with a blocked note the
  engine saves the position it probed, past the note that
  `domain/sync-coordinator.ts:229-231` holds the position back for (`leftBehind`).
- `livesync/push-adapter.ts:115`: binary files are pushed through a text decoder, a pass
  that did so reports convergence, and the next one meets a note that it cannot decode or
  a conflict; a worker replaces the only good copy by the next pull (`Binaries`).
- `domain/pull-plan.ts:288-295`: a file with a row that the user has edited is overwritten
  by a pull without a quarantine (`OverwritesAreProven` allows paths with a row).
- `cli/commands/pull.ts:111`: a crash between a file and its row makes every later pull
  stop at the preflight, since the file is unproven. A crash between quarantine and row leaves a
  row that `skip-logical-delete` never removes.
- `livesync/inventory.ts:270-274`: `skip=1` leaves out a note when the last row of the
  page before was deleted meanwhile (`unread` in `PullCheckpointCovers`), and notes that were
  removed from the server are not seen by a full inventory at all.
- `livesync/zero-mutation.ts`: the second snapshot differs whenever others write during a
  pull, which then reports a mutation of its own.
- `daemon/continuous-engine.ts:458`: a failed stream resolves as if all were well and
  resets the attempts: the delay between retries never grows.
- `domain/auto-arm.ts`: the threshold triggers at ten files, `README.md:79` says when
  they exceed ten.

- `daemon/file-worker-pool.ts:48`: the token of a hint that is replaced by a newer one of
  its path is never reported on, and workers' commits stop behind it until a pass writes
  the row. The checkpoint stays sound.
- `domain/sync-coordinator.ts:253-255`: a file that cannot be read between its hash
  and its push is pushed without bytes, the row holds the old hash, and the pass reports
  convergence (`misread`).
- `domain/sync-plan.ts`: a file and a different note without a row, and a row whose note
  now has another path, are in no case of the table (`Unplanned`).

## 7. Plan

Left to do, in this order:

1. `SyncPass`: pull-only passes applied file by file from the reading of `RemoteInventory`,
   and a worker beside the pass. Then the engine's `BeginPass`/`EndPass` as its abstraction.
2. `ChangesFeed` as the feed of `ContinuousEngine`: a refinement of `ReceiveRow`.
3. The signals of the shutdown handler and the timeout of the drain against exit codes.
4. Chunks before their note, temporary files against the orphan cleanup, and the
   retention of the quarantine.

# notehook, specified

TLA+ models of notehook (`src/packages`): what its parts promise, what TLC checks on
small instances, and what TLAPS proves for all of them. Paths below are relative
to `src/packages/`; client is `client/src/notehook_cli/`, server is
`server/src/notehook_server/`.

## The system

notehook is a sync server (FastAPI, one process, SQLite and a blob directory) and a
client that keeps one local directory the same as the server's tree, and runs
user-written Python workflows on what the sync changed.

    people, editors             other devices
         |                            |
     sync root <--- sync engine ---> server: sync lock, file tree, uploads, blobs,
         |            |   |                 change feed, auth
      (watch)     state.db events.db
         |                   |
       daemon            workflow runner --> job subprocesses --> sync root

### Inventory

| Component (code) | State | Operations | Hard behaviour | What makes it correct |
|---|---|---|---|---|
| Event log (client `workflows/events.py`) | `event`, `run`, `runner_meta` tables in events.db (WAL) | append, settle_pass, settle_orphans, unconsumed_settled, intake, claim_next, finalize_*, recover, sweep | three kinds of process share it; every method is a transaction, what lies between two methods is not atomic | the cursor passes settled rows only; one running row per (install, path); ended runs stay ended; sweep keeps what is needed |
| Workflow runner (`workflows/runner.py`, `workflows/cli.py`) | runner.lock, thread pool, `discovered` snapshot | recover_crashed, intake_step, run_pending, execute, serve, `run --wait` | threads, crashes, restarts, retries, installs that change under it | every settled event is handed over once, every run ends, attempts are limited |
| Harness, executor, SDK (`workflows/executor.py`, `harness.py`, `_sdk/`) | job directory, subprocess | prepare_job, execute, timeout kill | subprocess outlives a killed runner | jobs of one pair do not overlap |
| Installs, manifests (`workflows/installs.py`, `manifest.py`) | install directories, state files | discover, enable, disable, remove, match | read once per batch | a removed install's runs end |
| Three-way diff (`diff.py`) | none | classify | 3 x 3 x 3 cases, folders, ordering | an edit is never planned away without a conflict |
| Sync engine (`engine.py`) | sync root, state.db | run_once and a handler per action | not transactional across disk, server, state.db and events.db | both sides converge, no unsynced version is lost |
| Scan, state.db (`scan.py`, `state_db.py`) | md5 cache, rows | scan_local, upsert, remove | ignored names, hashing at two moments | rows tell the truth |
| Daemon, pass lock (`daemon.py`, `lock.py`) | stop, wake, local-change events, cursor | watch loop, feed loop, run | three tasks | no change is missed, no pass loop feeds itself |
| Server sync lock (server `files/sync_service.py`) | `sync_session` rows | begin_sync, end_sync, guard | read then write, TTL, several devices, a device's retry beside its own late request | two rows of a device only from overlapping syncStarts; no mutation while another device's session lasts |
| File tree (`files/tree_service.py`) | `file_node` rows | create, ensure, move, copy, delete, autorename | recursion, partial commits, case-insensitive names | a tree, unique names, descendants go with their folder |
| Uploads, blob store (`files/upload_service.py`, `blob_store.py`) | `upload` rows, blob files, trash | apply, receive_full, receive_part, finish | two PUTs of one id, quota by declaration, a blob shared by copies | a node's bytes are the finished upload's; no referenced blob is trashed |
| Change feed (`files/change_service.py`, `routers/notehook.py`) | `change` rows, long poll | record, since | cursor against concurrent commits | no change skipped |
| Downloads (`files/download_service.py`) | use counter per nonce | signed_url, verify | concurrent use | at most max uses |
| Auth (`auth/service.py`) | nonce, limiter and token stores | login, validate, revoke | TTL, overwritten nonces, a login that is given up and goes on | one code, one token; a client that tries again gets in |
| Config, CLI, protocol, stubs, app wiring | TOML file, none | – | none | – |

How they interact: a sync pass takes the client's pass lock, calls syncStart, scans,
lists, plans, executes, calls syncEnd; every change it makes is a row of state.db and
then an event row of events.db, unsettled until the pass ends. The runner polls
events.db, queues runs for settled events and executes them in threads; a job may
write into the sync root, which is the next pass's local edit.

`PROJECT.json` lists every component with its status, and every hazard at its line.

## Modules

| Module | What it is |
|---|---|
| `EventLog` | events.db: its tables as variables, one operator per SQL transaction |
| `Runner` | the runner's processes and threads, the passes and commands that write beside it, crashes; EXTENDS EventLog |
| `RunQueue` | the abstract queue a workflow author relies on; Runner implements it |
| `SyncDiff` | the three-way diff as an operator |
| `SyncEngine` | sync passes, step by step, between the disk, the server's tree and state.db; EXTENDS SyncDiff |
| `FileTree` | the file_node table as a function, and what the tree's operations look up and write in it |
| `FileStore` | the file server: requests over the tree, uploads, blobs, links; EXTENDS FileTree |
| `Vault` | the abstract store of files; FileStore implements it |
| `SyncLock` | the sync_session table, syncStart, syncEnd and the guard of mutations |
| `Daemon` | the client's daemon between the change feed, the watcher and the lock; EXTENDS SyncLock |
| `Sessions` | random codes, logins, the limiter, tokens |
| `MC_*` | the definitions the .cfg files use |
| `RunnerProofs`, `RunQueueProofs` | theorems about Runner; that it implements RunQueue |
| `SyncEngineProofs` | theorems about SyncDiff and SyncEngine |
| `FileStoreProofs`, `TreeProofs`, `VaultProofs` | theorems about FileStore: its blobs, uploads and links; its tree and its change rows; that it implements Vault |
| `DaemonProofs`, `SessionsProofs` | theorems about SyncLock and Daemon; about Sessions |

### The runner

A run is `<<event, install>>`: the intake makes one row per pair of these, and their ids
are in the order of the events. Of the epoch columns only the comparisons made
with them are kept: a retry is `due`, a row is `old`. Producers are one sync pass
at a time (the pass lock) and any number of `run`/`backfill` commands. `proc`
is who holds runner.lock; `pc` and `worker` are where its main thread and pool
threads are, one action per transaction or blocking call:

| Action | Code |
|---|---|
| PassStart, PassEmit, PassEnd, PassCrash | engine.run_once: settle_orphans, `_emit`, settle_pass in `finally`, a dead pass |
| AppendSettled | `workflows run`, `workflows backfill` |
| Configure | enable, disable, remove, install |
| StartServe, StartWait, Stop, RunnerCrash | serve, `run --wait`, SIGTERM, a kill |
| Recover | recover_crashed, one commit per row, through `_reschedule_or_exhaust` |
| IntakeRead, IntakeWrite | intake_step: the read; then discovery, matching and EventLog.intake |
| RunPending, Claim, FailGone, Execute, Raise, PoolDrained | run_pending and its threads; an exception ends serve |
| Sweep, Wake | housekeeping, the wait |
| OrphanExits, Tick | a subprocess that outlived its runner; the clock |

Decisions: an install is enabled, disabled or gone; one whose manifest does not
parse counts as gone, since both fail the run the same way. Retention passes
only while no pass is going on and serve is idle or down: no
tick lasts days. Job directories, output and environment are
left out.

`RunQueue` says of the same thing: batches are handed over in log order, each event once;
a newer run of a pair ends the ones waiting; runs of a pair never overlap; what
ended never comes back. `Runner` implements it with `backlog` = the run table
(queued and retry are "waiting") and `horizon` = the cursor.

### The sync engine

`local`, `remote` and `known` map paths to contents, folders or nothing; a content stands for
its md5. A pass plans with `Classify` from one look, then takes the plan's items in the
engine's order; each item is the sequence of its handler's effects (upload: read, put,
record, emit; download: get, replace, record, emit; deletes: the side, the row, the
event; conflict: rename, then an upload and a download). Between any two steps
the pass may fail (`PassFails`), a handler raises where its code would
(`Raises`), and, where `Racing` says so, a person may edit. The server's tree is
seen from one client: an upload is its atomic `finish`.

That a pass takes one look is exact: the scan, the listing and the hashing read
each path of a side once, so an edit between two of those reads can be moved
before or after all of them without a read noticing. Between the look and a handler's
own reads it cannot, and those reads are steps of their own.
Names of conflicted copies are new in the model; two conflicts of one path in
the same second, which share a name, are left out.

### The file server

`node` is the file_node table, `upload` the upload_session table, `blob` and
`chunk` the two directories. A request is a thread (`req[w]`: what it is, where it
stands, its locals), and a step of it is one commit with the reads that lead to it,
or one change of the disk; between two steps other threads go on or the server
dies (`Crash`: requests are lost, everything else is on the disk).

| Action | Code |
|---|---|
| CreateFolder, MoveOrCopy, DeleteNode, Finish, ReceiveFull, ReceivePart, Apply | the routers' entry, up to the first commit |
| EnsureFolder | create_folder's and ensure_folder's loop: a commit per folder on the way |
| MakeFolder, MoveNode, CopyNode, FinishNew, FinishExisting | the leaf: conflict, autorename, unique constraint, change row in the same commit |
| CloneRead, CloneCommit | copy's `duplicate`: a row is read, its clone committed, then the children listed |
| CheckOrphan, TrashBlob | blob_referenced, then trash |
| WriteStream, Complete | the blob replaced as a whole, then the session's row |
| FinishEnds, DeleteEnds | the session's row deleted; the answer |
| SignedUrl | download_v3; a link is kept and may be used at any later time |

Names are a base and the numbers autorename has added. SQLite's folding (unique index,
`lower()`) and Python's `str.lower` are two functions. Every file is of size one, and an upload has two
parts. The size a client declares for a PUT is zero or one, whatever it then sends: nothing compares the two, the check
after the write adds nothing, and parts are counted as they lie on the disk. `counted` of an upload (kept for the properties) is the size
the check took the tree to come to. Ids are as SQLite gives them out: one more than the largest there is, so a deleted node's
id comes back. Requests of one device follow one another as long as its client gets its answers (api_client waits for each)
and the lock keeps devices apart, so the instance has one worker. With two, which is what a request that goes on after its client
has timed out is beside the retry, `NodesHaveBlobs` does fail (see Findings).

`Vault` says of the same thing: contents arrive whole, are filed once, are copied and removed, and a
file never changes its content except by something filed in its place.

### The lock and the daemon

`SyncLock` has per device its active rows and two requests cut where the code has a
query and then a commit: syncStart (AskToStart, ReadPriors, BeginSync) and a mutation (Guard, Leave). `Calls` are the
threads that may work for one device at once: a second syncStart of a device may overlap its first, as begin_sync
has nothing against it, and then both may have read the prior rows before either inserts its own. A row carries which syncStarts have read it and
will close it; `over` and `past`, kept for the properties, are the syncStarts of the device that had read and the mutations that were past their guard
when it was committed. `Expire` is started_at falling out of the TTL (600 s, never refreshed). syncEnd closes the newest
row, one of any if overlapping calls wrote them in the same moment.

`Daemon` composes it with the change feed and the daemon's three threads. The change table is
a sequence of devices; the feed's answers hold `Limit` rows. `pc` is where run's thread is: wait, clear,
begin (syncStart), scan, list, work, end. `scanned` and `listed` are how much of `edits` and `changes`
a pass saw at its two looks, `pushed` and `pulled` how much is done. Pulling a foreign change
touches the sync root, so the watcher fires again: the model has the extra pass
the real daemon makes. Faults are a pass failing anywhere (a held lock file, an HTTP error, a timeout, a lost
syncEnd), the feed thread ending for good, and a restart. `waits` is the call whose answer the loop waits for. When a pass fails or the
daemon dies, the server finishes what it has begun (LateStart, LatePush beside the next pass's own requests), and what was sent and not begun is lost or is
`late`: a syncStart, a mutation or a syncEnd that arrives whenever it will, possibly in the middle of a later pass.

### Logging in

One code per account, taken by the first login that is tried. A client's login may reach the
server twice, or be given up by the client and go on at the server beside its retry: that is where two
first logins of one equipment both insert its row, and the unique constraint fails one of them. The
account's own row is there from create_app on. The limiter counts hits of the last minute.

## Runs

| Run | Instance | What it shows |
|---|---|---|
| runner_core | 1 install, 1 file, 3 events, 2 threads, 2 passes, 1 crash; 644k states | the safety properties of the runner |
| runner_pairs | 2 installs (removable), 2 files, 2 events, ageing rows; 908k states | the runner implements RunQueue; coalescing and serialisation act on pairs; the sweep keeps what runs join with |
| runner_live | 1 install, 2 events, 2 threads, 1 crash, fair; 63k states | settled events are handed over, runs end, orphans settle |
| sync_file | 1 file and two copy names, 3 contents, 4 edits, 2 failures, keep-both; 116k states | no unsynced version is lost, nothing deleted comes back, rows tell the truth |
| sync_folders | folder with a folder and a file, 4 edits, 1 failure, newest-wins, fair; 18k states | the plan's order never fails by itself; both sides converge |
| store | 1 worker, 2 uploads, 2 contents, names a, A, b, paths a and A/b, 4 rows, 5 requests, 1 crash; 480k states | the tree stays a tree, blobs fit their nodes, links their hashes, changes are announced, the quota is overrun only by what no check counted; the server implements Vault |
| daemon | 2 devices with 2 calls each, at most 1 foreign change, 1 foreign sync, 1 edit, 1 fault and 3 of these in all (`MaxEvents`), answers of one row, fair; 576k states | the lock excludes, two rows of a device need overlapping syncStarts, no wake-up is lost, everything is synced in the end |
| sessions | 2 clients, 2 attempts a minute, 1 code of the other's, 2 mishaps; 342k states | a code is good for one token; a client that tries again gets in |

Why these bounds are enough to meet the interesting cases. Runner: three events
of one pair are a running, a waiting and an overtaking run, which is what coalescing,
retry and recovery can meet at once; two threads and one crash give every overlap of a
claim with a claim and with a dead process's row; two passes let the
second settle what the first left. Sync engine: three contents are the base and
two diverging edits, four edits change both sides twice, and two failures let a repaired
pass fail again. Store: five requests are an upload, its finish, a copy of the file, and two more that
move, delete or replace one of the two; four rows hold a folder with a file and its copy; two uploads share one
uploadId, so parts of both meet in one chunk directory; the two paths make each name the other's folder or file, in the other case. With a
third path, A itself, all of it holds too, over 1.15M states (run by hand). Daemon: one foreign change and one edit may fall
at every point of a pass, and the one fault may be the pass they were waiting for; it leaves a syncStart, a mutation and a syncEnd behind that meet the next pass's, which is what two calls are for. Of the
four things that may happen three do, in every combination; with all four (`MaxEvents` = 4) the invariants and `TurnsAreRespected` hold over 6.1M states, too many for liveness in the time of a run. The feed's limit of one
makes `since` stop short of the newest row. Sessions: the other's code displaces the diligent client's once, and two
mishaps are a login given up and an answer lost. Symmetry (threads, contents, uploads) is used in safety runs
only. Deadlock checking is off because everybody may have stopped: bounds on people, events,
requests and crashes are reached, and serve may be stopped for good.

### Findings (runs that expect a violation)

| Run | Disagreement |
|---|---|
| runner_stale_retry | "only the newest event per path runs" (docs/workflow-spec.md, section 6): a run left running by a crash is put back by serve after `run --wait` has queued a newer one, and is executed after it |
| sync_racing | a save between the plan's hash and `_record_synced`'s hash becomes the merge base and is never uploaded |
| sync_folder_loss | a folder deleted here is deleted there with a file edited there, just after that edit was downloaded |
| store_names | a name is looked for by Python's `lower()` and stored under SQLite's: a node with an upper-case letter beyond ASCII is not found under its own path, so a second write of it runs into the unique index |

Five more are configured and left to be run by hand (`tlc -config MC_X.cfg MC_Y`), each a violation:

- MC_RunnerOrphanJob.cfg, `JobsSerial`: a killed runner's subprocess goes on beside its rescheduled attempt, though
  pairs are to be "strictly serial".
- MC_SyncClashLoss.cfg: a local file recorded against a remote folder of the same name (engine.py:226) is
  deleted with that folder, never uploaded.
- MC_SyncIgnored.cfg: a remote dot file is downloaded, then, as the scan ignores it (scan.py:50), deleted remotely.
- MC_SyncEvents.cfg, `EventsAsDurable`: a pass that stops between a change and its event row loses the event, although
  events are to be "exactly as durable as the files themselves".
- MC_DaemonRows.cfg with MC_Daemon, `OneRowPerDevice`: a daemon is killed after its syncStart has read the prior rows, the restarted one's
  reads them too, and both insert: two active rows of one device, although begin_sync closes prior rows "so a device that never sent
  syncEnd can't leak active rows" (sync_service.py:38-39). syncEnd closes one of them, and the other locks the other devices out until it is
  older than the TTL, or the device's next syncStart closes it.

Met while modelling and not made a run:

- `sweep` deletes an old event whatever the cursor and its settled flag are, so events of a dead pass
  older than the retention time are lost if no pass ran in between.
- `workflows run` signs its event with this client's equipment number, so the runner drops it for
  an install with `skip_own_changes` (runner.py:139, before the test for a manual event), although
  runner.py:146-148 has a manual trigger bypass every filter; `ShouldQueue` models what the code does.
- A finish may be called again after the server died between its commit and the deletion of the session's row. While the node is
  as that commit left it, this does no harm: the blob it replaces is its own, which the node still names, so blob_referenced keeps it. If the node was
  deleted or replaced in between, its blob was trashed, and the repeated finish makes a row that names a blob that is gone
  (`Repeats` lets it; the run has it FALSE).
- The quota check of a PUT counts `upload.expected_size or 0` (upload_service.py:88), and the one after the write, "re-check with actual bytes on
  disk" (line 92), adds 0 to the same sum of the tree's rows, so it cannot see the new blob. An upload that declares no size, or too small a one, is
  stored and filed with no room left. `OnlyUncountedOverruns` states that nothing but this, a copy, or a file stored between the check and the finish
  overruns the quota.
- Two requests at once, as when the lock has expired under a long pass or a client has timed out and tries again, break `NodesHaveBlobs`: two PUTs of one
  upload, or a copy of a file whose deletion has just asked blob_referenced. Nothing refreshes started_at, so a pass that lasts longer than
  the TTL is such a case.
- Two syncStarts of different devices that overlap are both granted, and then each device's mutations are refused until one
  of them ends or grows old: `TurnsAreRespected` holds all the same, which is what the guard is for.
- A foreign change between a daemon's first listing and its feed's bootstrap, or the first change on an empty server (the
  cursor is 0 and the next answer a bootstrap again), is not announced; the poll timer finds it.
- `cleanup_expired` of the uploads is called nowhere, so an upload that is never finished keeps its blob.

What the properties do not reach: that a save during a pass becomes the merge base is caught by sync_racing's `Converges` alone, as the other
sync runs keep edits between passes; ignored names and file/folder clashes by the two hand runs above alone; a copy between blob_referenced and the
trashing, and two PUTs at once, by no run, as they take two workers.

## Fairness

Runner: weak fairness of PassStart and PassEnd (the daemon starts passes and a pass
ends: its plan is finite and every HTTP request has a timeout), of the runner's main thread as one
process, of each thread (a job ends or is killed at its timeout), and of the clock. No fairness of starting
serve, of commands or of people; liveness properties therefore assume `<>[](proc = "serve")`.
An exception in a thread (`Raise`) and crashes are bounded, not fair. SyncEngine: weak fairness
of the engine's steps, the daemon's loop; failures and people stop at their bounds.

Daemon: weak fairness of `Loop`, run's own thread, whose wait has a timeout, and of each session's ageing.
Nothing is asked of the watcher, the feed or other devices: what they do may stop at any time, so the poll timer and the
TTL alone must carry `EventuallySynced`. Syncs other devices start are bounded (`MaxStarts`), and must be: a tablet
that holds the lock whenever the daemon asks starves it, as the code has no queue.

Sessions: the diligent client asks for a code and sends its login, the server's threads answer, minutes pass. The
other client's codes are bounded for the same reason: two clients that retry for ever can displace
each other's code for ever.

## Proofs

All with no other assumption than the named ones on the constants and, for the file server and for `NoRowLeaks`, `OneAtATime`, for the
sync engine `Undisturbed`, which are explained below; the runs of these properties satisfy both. Every safety property
that a run checks is a theorem.

**Runner** (`RunnerProofs`). `StepsOfTheLog` shows that each of the processes' actions does one
of nine things to the log (`LogStep`), so that what concerns the log is
proved once per thing. The invariants are not inductive alone; `IInv` adds:

- `BatchIsSettled`: between intake_step's read and its write a pass may append and a command
  may settle rows; what holds meanwhile is that everything up to `upto` is settled and
  below the next id. Without it `CursorOverSettled` is lost at IntakeWrite.
- `RunsConsumed`: a run's event lies at or before the cursor. With it a batch is disjoint from the run
  table, so an intake inserts and never replaces; `SerialPerPair`, `QueuedIsNewest` and
  `TerminalIsFinal` need that.
- `PassUnsettled`: rows of the pass going on are unsettled; with the two above this is `HalfSyncedHidden`.
- `ThreadsInPool`: threads are busy only in the pool; then `ClaimOwnership` survives the start
  of a pool, a crash and a restart, and it gives `LogStep` that only running rows are finalised.

`RunMoves` and `RunsAppear` describe what a step may do to one run; from them and
`IInv` follow `CursorSafe`, `PassesAreHidden`, `Serial`, `ClaimsAreOwned`, `EventsOutliveRuns`,
`AttemptsAreLimited`, `Coalescing`, `BacklogStaysShort`, `EndsAreFinal`, and `TypeCorrect`.

**Refinement** (`RunQueueProofs`). Each of the nine maps to a step of `RunQueue` or a stutter:
an intake to HandOver, a claim to Start, a finalisation to Stop, the sweep to Forget.
`RunnerImplementsRunQueue` is `Spec => Queue!Spec` for every instance.

**Diff** (`SyncEngineProofs`, first part). Classify is total; a file is planned to be replaced or deleted
only if it still has the last synced hash; recorded files agree, given a row of one content;
a conflict is between two versions that are both new.

**Sync engine** (`SyncEngineProofs`). `EngineTypes` holds of every instance. The others assume `Undisturbed`: nobody
edits during a pass, the scan ignores no name, and no path is a file here and a folder there. Without any one of the three
`KeepsLocalEdits` is false, as TLC shows on the instances of sync_racing (the row is taken from a file saved since), MC_SyncIgnored.cfg (a
download replaces a file the scan did not see) and MC_SyncClashLoss.cfg. Paths, contents, the
policy, the edits between passes, and where passes fail or die are any. `IInv` adds to the properties:

- `Kinds`: a folder's path has a folder or nothing on either side and in its row, any other path a content or nothing.
- `RowsAgree`: a row has one content, so that "has the hash of its row" means the same of both sides.
- `Due`: what each item of the plan relies on until its turn comes, e.g. that the file a download replaces still is the one of
  its row. The items before it are of other paths, except that the deletion of a remote folder takes what lies in it along.
- `UnderWay`: the same for the steps of the item that is going on: what was read is still what is there when it is recorded.
- `DeletesLast`: deletions come last, deepest first, so nothing that is still to be done needs a node that is gone.

`Due` and `UnderWay` hold only while a pass runs, so `PassTrue` has to be established from nothing when a plan is made: that
is where the diff's theorems are used. A pass that dies leaves `Kinds` and `RowsAgree`, and that is all the next one starts from.
`PassInvariant` gives `NoSilentDivergenceHolds` and `PlansRunThrough`, and step by step `KeepsLocalEditsHolds`,
`KeepsRemoteEditsHolds`, `NeverResurrectsHolds` and `RowsWereTrueHolds`.

**Lock** (`DaemonProofs`, first part). Any number of calls of a device may overlap. `OnlyOverlapsLeak` needs `PriorsRead`: a syncStart that
has read the prior rows will close every active row of its device, except those of syncStarts that committed after it had
read, and these have it in `over`. `LeaksNeedOverlap` is the theorem without conditions; `NoRowLeaks` adds that
under `[]OneAtATime`, one syncStart of a device at a time, there is at most one active row, so lost answers, missing syncEnds and other devices'
calls alone never leave a second. `OneAtATime` cannot be dropped: see MC_DaemonRows.cfg. `TurnsAreRespected` needs what a guard saw (`GuardsSaw`): a mutation past its guard is on record in every
fresh session of another device, since either the session was there, and the guard refused, or it began after, and
its row was committed with the mutation in `past`. Overlapping syncStarts do not weaken it.

**Daemon** (`DaemonProofs`). `UsesTheLock`: every behaviour of the composed system is one of SyncLock, so the
lock's theorems hold in it as they stand. `NoLostWakeup` is inductive with the types once these say that no look is
ahead of what there is to see; the case that matters is the pass that ends while the feed has told of
more than it listed: then `wake` is still set, as Clear comes before the scan and the listing.

**Logging in** (`SessionsProofs`). `OneLoginPerCode` is strengthened to `CodesOnce`: a code that may still be taken was good for
nothing so far, and of a client's sends at most one is past the check with it; CheckLogin takes the code in the same step
in which it lets a send pass.

**File server** (`FileStoreProofs`). The theorems assume `OneAtATime`: requests follow one another, as the lock and
a client that gets its answers have it, and no finish is repeated. Without either half they are false (see Findings); a request its client has given up on
breaks the first, and nothing in the server prevents that. The names,
contents, uploads, parts, ids, limits, requests and deaths are any. `IInv` adds to the properties:

- `Fresh`: an upload whose bytes may still be written is named by no row, no link and no orphan. This is what lets a
  blob be replaced as a whole without any file changing under its md5; a session leaves `Fresh` at its finish and never returns.
- `UploadsTrue`: a completed upload has the bytes its row says, and there was room for what its quota check counted of it, which may leave the file itself out.
- `AtWork`: what a request relies on from one step to the next: the row a copy has read is still
  there when its clone is committed, so the blob they will share is; an orphan that was found unreferenced still is when it is trashed; the
  blob of a finish is there until its row names it.

`StoreInvariant` gives `StoreTypeCorrect`, `BlobsAreThere`, `NoBlobIsLeft` and `LinksAreTrue`. New ids need that the largest of a
set of ids exists (`MaxIsLargest`), which is shown by well-foundedness, without induction.

**Tree** (`TreeProofs`). `TreeInv` adds to `IInv` that the table is a `Forest` (`Parented`: a node lies in a folder that is there;
`Rooted`: all is reached from the root; `OneName`: no two nodes have one key of the unique index) and that requests are
`WellPlaced`: the folder a request has resolved, and every folder a copy is still to fill, is there until it is used. That is
where `OneAtATime` comes in: another request could remove the folder in between. `Subtree` is stated as the least set that
holds a node and is closed under children, which is what the code's walk collects; so a node is shown to be reached, or not
to be, by naming a closed set, and no induction over the walk is needed. A move keeps `Rooted` because its destination
is outside the moved subtree; were a closed set around the root to miss the node, adding the subtree to it would give one that has
the destination, and then the node. `TreeIsSound` also assumes `SqlLower = PyLower`, for
resolution by path alone: store_names shows that it is false without. `TreeInvariant` does not.
`ChangesAreAnnounced` needs of the invariant only that new ids are new and that only copies clone.

**Vault** (`VaultProofs`). `FileOf` and `InboxOf` are Vault's variables with a row's hash for its blob's bytes, equal to the mapping's by
`IInv`. Every step of a request is one of `Happens`: nothing, an arrival, a discard, a filing, a copy, a removal. That gives
`StoreImplementsVault`; and since only a filing or a copy adds a file, and for a filing what its check counted is within the quota,
`QuotaOverrunIsUncounted`.

Model-checked only: liveness (`SettledIsHandedOver`, `EveryRunEnds`, `OrphansSettle`, `Converges`, `EventuallySynced`,
`EventuallyLoggedIn`), as fairness is out of the prover's reach, and the violations. Bounds that a proof does not remove are
those of the models themselves, such as files of size one and uploads of two parts.

## Not modelled

- **Server and sync engine as one.** SyncEngine sees the tree as one client does, with finish and a recursive
  delete as single steps; FileStore has the steps they are made of. The two are not composed, and neither are two clients'
  engines over one tree: Daemon composes the parts that decide who may go on and when.
- **Downloads' nonces.** What a link leads to is modelled; `verify`'s signature, age and use count are not.
- **Arguments, TOML, wire models, stubs, logging, debug capture** keep no state these properties are about.
- **Manifest parsing and globbing** are a relation in Runner. The SDK and a job's output are read by the user's own code only.
- **`notehook sync`, one pass from the command line**: what it does is SyncEngine; Daemon has the loop only.
- **Disk faults and clocks that jump** (TTL, retention and retry times are compared, never computed here).

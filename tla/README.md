# Verification of pdomain-ops

TLA+ models of the parts of `pdomain_ops` that are hard to test: the ones where
processes, threads, coroutines, files and crashes meet. TLC checks the models on small
instances; TLAPS proves every safety property of every model, and the safety part of
both refinements, for all values of the constants. Paths below are relative to `src/pdomain_ops/` of the repository.

## The system

`pdomain-ops` is a library that the desktop apps of one suite share. Several apps
run at the same time, as separate processes, on one data directory; each has an
asyncio event loop, executor threads, a uvicorn thread and, in windowed mode, a
GUI main thread. Nothing coordinates the apps except files, file locks, a sqlite
database and process ids.

| Component | State | Operations | Talks to | What is hard | What makes it correct |
|---|---|---|---|---|---|
| Long jobs (`gpu/local_jobs.py`, `gpu/events.py`) | `jobs` and `job_events` in `jobs.db`; `_processes` of each runner; the worker's pipes | `submit`, `submit_with_process`, `_supervise`, `_drain_stdout`, `status`, `cancel`, `stream_events` | worker subprocesses (pipes, SIGTERM), other apps through the database | supervision, cancel and streams interleave; app crashes; a full pipe; another app's cancel | the log is the worker's output; a verdict is never premature; streams lose and repeat nothing; jobs settle |
| Desktop shell (`desktop.py`, `suite/single_instance.py`, `suite/ports.py`) | the pidfile, the port, the server thread, `quit_event` | `run_windowed`, `restart`, `acquire`, `read_live`, `find_available_port` | other launches, the operating system's ids and ports | check-then-act between launches, reused ids, stolen ports, threads that die, teardown that hangs | one shell, found through its pidfile; every launch and every quit comes to an end |
| Shared suite files (`suite/prefs.py`, `registry.py`, `shared_paths.py`, `device_routes.py`) | `ui-prefs.json`, `installed.toml`, `shared-paths.json` and their locks | `read`, `write_common`, `write_app`, `register`, `unregister`, `list_installed`, `publish_shared_path`, `resolve_shared_path`, `PUT /api/suite/device` | all the apps | lost updates, a writer that dies half-way, a wedged lock holder | one call replaces one section and leaves the others; only a failure loses a document |
| Blob store (`blob_store.py`) | the blobs directory with its `.tmp` files | `write`, `read`, `exists`, `prune_orphans` | page records, which hold the hashes | two writers of one digest, a prune beside a write, kills between system calls | what a record refers to can be read |
| Local OCR dispatch (`gpu/local_stage.py`, `default_stages.py`, `doctr_batch.py`, `device.py`) | `_predictor_cache`, free VRAM | `run_stage`, `run_ocr_batch`, `run_doctr_batch` | the models' library, torch | an unlocked cache between the event loop and threads, sizes that are probed twice, the OOM loop | batches run on predictors of their size; the backoff goes down to size 1 before it leaves the GPU, and ends |
| Page aggregates and page server (`page_aggregate.py`, `page_server.py`, `pages/`) | copies of aggregates in requests, their pending events; the stored events and snapshots | the `@event` commands, `save_page`, `get_page`, `save_project`, `get_project`, shard routing | event store library, blob store | arguments held by reference, two copies of one page, failed saves, snapshots of states that have moved on | memory and replay agree; no update is lost; what a record refers to is in the blob store |
| Sibling launch (`suite/sibling_spawn.py`, `suite/routes.py`) with registration and bootstrap (`suite/register_self.py`, `bootstrap.py`) | spawned processes, their ports, the rows of the registry | `POST /api/suite/launch`, `launch`, `bootstrap_spa`, `register_self` | registry, other apps' `/healthz` | check then spawn, ports that move between look-up and use, deadlines that leave a process behind | a running sibling is found again; the registry leads to the live port |
| Self-update (`suite/update.py`, `update_routes.py`) | the rollback record, the installed version | `apply_upgrade`, `GET`/`POST /api/suite/update` | the `uv` tool, the package index, `restart()` | requests in several threads, failed and repeated upgrades, metadata that uv has taken away | the rollback record names the version that was replaced; a local-dev install is left alone |
| Device probe, remote dispatch, shortcuts, schemas, paths, types, auth, storage | none between calls | | torch, Modal, the file system | little | unit tests |

## Modules

`Op_Something` beside an operator `Op` is a plausible bug in it: it documents which
property would notice the bug. No specification uses one.

### LongJobs (with EventFeed, MCLongJobs, LongJobsProofs)

Any number of runners (one per app) on one database. Every access of the code to
the database is one critical section under the FileLock and so one action. Between
two of them everything interleaves, with one exception that the code's event loop
makes: two critical sections of one coroutine without an `await` between them keep
the other coroutines of the *same* runner out (`Busy`, `LoopFree`), but not its
executor threads and not the other runners. `submit_with_process` (INSERT, then
`Popen` and `running`) and `cancel` (status, then the look into `_processes`) are
such pairs.

| Model | Code |
|---|---|
| `jobs`, `job_events` | the two tables; `seq` is the index into the sequence |
| `processes` | the keys of `_processes` |
| `task[j].pc`: spawn, drain, raised, wait, done, lost, dead | between INSERT and `running`; in `_drain_stdout`; the thread raised, and the catch-all is still to write; in `proc.wait`; `finally` done; nobody supervises the worker, because the catch-all's own write raised, or that of `running` after `Popen`; app died |
| `worker[j]` | the subprocess: a script of output lines, writes to stderr and closing of stdout; pipes of capacity `PipeCap`, `ErrCap`; `orphan` when nobody has the reading ends any more, as after the death of the app: what the pipe held is lost then, and a worker that writes on may get a broken pipe |
| `cancels[c].pc`: checked, waiting, done, noop | after the status read; in `proc.wait`; row written; terminal, returned at once |
| `streams[s]` | `stream_events` with `last_seq` and what it has yielded |
| `SpawnFails`, `SpawnUnrecorded`, `DrainRaises`, `SuperviseFails`, `SuperviseLost`, `CancelRaises`, `StreamRaises` | the database or `Popen` raises, at each of the accesses one after another: the catch-all of `_supervise` is a step of its own, which may raise as well |

A line of output is its position in the script and its kind (`event`, `log`, `malformed`,
`blank`, and `unhashable`, a line whose `kind` the parser cannot look up, which ends the
supervision), which is all that the parser's result means to the runner.
`EventFeed` is what the protocol promises of `stream_events`, as a specification of
its own: per topic an append-only log, closed once, and readers that get all of it
in order and end. `ImplementsFeed` is the refinement; a job's topic is closed when
its row is terminal and no cancel touched it.

### DesktopShell (MCDesktopShell, DesktopShellProofs)

Every launch is a process with a main thread (`pc`: check, reap, port, acquire, start,
health, tray, open, window, stop, join, untray), a server thread, a tray and
`quit_event`. `read_live` and `acquire` run under a FileLock, and the port search is
between them. The lock keeps other launches out, but not the rest of the machine: the
look for the pidfile's process (`FindStale`) and the unlink (`Reap`) are two steps, and
the id may be given out again between them, to a stranger or to a new launch, which waits
for the lock. Process ids are handed out again when their
process is gone, strangers take ids and ports, a kill inside `acquire` leaves an
unreadable pidfile. `restart()` is `execv`: the same process id begins `run_windowed`
again. The window never sees its server die, because the watchdog does not look.

### SuiteFiles and SectionStore (MCSuiteFiles, SuiteFilesProofs)

A call is a list of sessions; a session is lock, load, rewrite, unlock, with the
rewrite in two steps (truncate, complete) for the two documents that are rewritten
in place and one for the document that is staged and renamed. `put_device` has a
session that reads, one that writes the section it read, and one for its answer;
`stale` notes whether another call has written that section between the first two.
A section is some data, a device and whether it has keys the model of the common section
has no field for (`unknown`). Reading passes it through that model (`Modelled`): the common
section loses such keys, those of apps are kept as they are, and data the model rejects
(`Odd`) makes the whole read fail, for every app. A registration tests which binaries
are there after it has loaded the table and before it writes (`Changed`, in `BeginWrite`).
`SectionStore` is the abstract promise: a map from sections to values where one
step replaces one section, plus the loss of a whole document by a failure, which is
allowed for the documents that are rewritten in place only. The refinement takes a
document that is being written for what it was before.

### BlobStore (MCBlobStore, BlobStoreProofs)

`write` is test, open (which truncates), fill, rename; `prune_orphans` is the
directory listing, the test of each name and its unlink. An open file is followed
through renames and unlinks (`at`), because a writer that holds the file goes on
writing into it under whatever name it has by then. `overlapped` and `late` are
history variables: they name the two known ways in which the store goes wrong, so
that the invariants can say there is no third. The callers are there as far as their
references matter: `Record` (a page record with the hash is saved) and `Supersede`
(a provenance node is replaced by one of its id, and nothing refers to the blob now).

### OcrBatches (MCOcrBatches, OcrBatchesProofs)

Single pages and batches on the shared predictor cache. A predictor is the sizes it
was built with and who built it. Free memory is counted in pages and every probe
may find any amount. `run_ocr_batch` holds the event loop until it has its first
predictor (`LoopFree`); everything else is in executor threads and interleaves,
also between the miss and the store. The retry loop keeps its own sizes, which it
probes again (`StartLoop`), beside those of the predictor it runs on: the difference is
what `FallsBackLast` is about. Other callers of `run_doctr_batch` (`StartDirect`) bring a
predictor or none, have no `build_smaller`, and so give the GPU up at once (`GivesUp`).

### SiblingLaunch (MCSiblingLaunch, SiblingLaunchProofs)

A request is one call of `launch_app`: it reads the row (404, 409), awaits one
answer of `/healthz` on the row's port, spawns, and polls until an answer or the
deadline; requests interleave at these awaits, and the answer is as old as the
await. A process is one run of a sibling's main: `find_available_port` from the
port it was passed or its own (what a main does with `--port` is its own business),
`register_self`, and only then the bind, which can fail. `row` is the registry,
whose file and lock are in `SuiteFiles`. A registration writes the app's own row and drops
those of other apps whose binary is away (`Register`), or all of them when it finds the file
unreadable (`RegisterUnread`); a kill in its write leaves some of the rows (`KilledInRegister`).
`atRisk` is a history variable: the apps that may have lost their row in one of these ways since
they registered, so that `RowNamesLivePort` can say that there is no other way. `troubled` is a history variable: the apps
for which one of four things occurred that the code does not guard against (a launch
beside an unfinished launch or start, a start by hand beside a launch or a process, a
slow answer, a failed registration). Without any one of the four TLC finds a second
process; timeouts, moved ports and foreign answers do not by themselves lead to one.

### PageLifecycle (MCPageLifecycle, PageLifecycleProofs)

One aggregate, a page or a project, and any number of copies of it that requests hold.

| Model | Code |
|---|---|
| `Command(c, e)`, `Applied` | an `@event` method: the event is pending, its body is applied to the copy; `exported` of a page does what `gt_mapped` does and is one with it |
| `Backfilled`, `WithBlobRefs`, `WithNode` | `_with_blob_refs`, `_apply_node` |
| `Save`, `SaveFails` | `save_page`, `save_project`: all pending events leave the copy, then all are inserted or none; then the snapshots |
| `Load` | `get_page`, `get_project`: the newest snapshot and the events after it |
| `Recorded`, `AsJson` | the transcodings: an event's record or node, and the whole of a snapshot, are dumped to JSON. A value is `plain` (JSON gives it back as it was) or `typed` (a tuple, a datetime, a UUID: JSON gives a list or a string); only the changes of `labeler_edited` are left to the library's encoder, which gives typed values back |
| `copy[c].shared[i]` | the event whose argument the node in the graph *is*, not a copy of it |
| `TouchArgument`, `TouchRecord` | a caller that breaks the ownership contract of the module's docstring, or the discipline for extensions |
| `Raises`, `HalfApplied` | `ocr_completed` or `labeler_edited` that raises half-way: no event, but a changed record |

The eventsourcing library is external: transactional insert with a unique version,
versioned `get`, snapshots at multiples of the interval in the order of the new events.
`spoilt` (what was done to a copy behind the events' back) and `origin` (what the
writer of a stored event had seen) are history variables, which let the invariants
say exactly which misuse can break them. `Replayed` is the abstract meaning of a
history: its events applied one after the other from the first (`After`, a function by
recursion on the version), without snapshots, copies or references.

A copy that is used after a failed save is the one way to a lost update: its version
has moved on, and its next events carry the versions after events nobody stored. They
leave a gap that makes the page unloadable, or stand behind another writer's events they
were not made for. `LocalPageStore` does not drop the copy or say that it must be dropped.

### UpdateFlow (MCUpdateFlow, UpdateFlowProofs)

One action per step of `apply_upgrade` that others can come between: the guard, the
version, the record's truncation and writing, the run of uv. The handler is
synchronous, so requests run in threads of one process and nothing locks the
record. uv is external: it serializes upgrades by its own lock, removes the old version
before it installs the new one, and outlives the app. Releases and the turn to a
local-dev install can come at any time, and the `direct_url.json` that tells of one can become
unreadable (`Damage`): `is_editable_install` answers "not editable" to any exception, so that
the guard lets a request through (`LooksEditable`). The answers 409, 502, 500 and
`restart_required` are ends of a request.

## Runs

| Run | Question | Instance and why it is enough |
|---|---|---|
| `jobs_safe` | Do log, verdict, streams and terminal states keep to what the worker did? | 1 job, 2 runners, 2 cancels, 1 stream, pipes of one line, 3 faults: 384,959 states. Jobs share nothing but the event loop; two runners give every cross-app race, two cancels a cancel beside a cancel, pipes of one line make every write block, three faults a failed append, a failed catch-all and a death after them. The scripts have every kind of line, an early close and both exit codes. |
| `jobs_live` | Do supervised jobs settle, cancels return, streams implement the feed? | 2 jobs on 1 runner, no faults: 89,236 states; two jobs compete for the event loop. Without symmetry, which would be unsound here. |
| `jobs_cancel_race` | Does a cancelled job stay cancelled? **No**, see the findings. | as `jobs_safe`, smaller |
| `jobs_stderr_stuck` | Does every supervised job end? **No** for a worker that fills stderr. | 1 job with a stderr pipe of one write |
| `shell_safe` | Is there one shell, is it found, does every launch and quit end? | 2 launches, 2 process ids, 2 ports, 2 faults, 1 restart: 329,170 states. Every id and port is reused, the predecessor's id also between the look for it and the unlink, and all faults occur in pairs. |
| `shell_restart` | Does a restarted app come back? **No.** | as `shell_safe` |
| `files_safe` | Do concurrent calls implement the section store, what can PUT of a device undo, does every call end? | 2 calls, 2 apps and the common section, 3 documents, 2 values of the rest of a section and one the model rejects, with and without unknown keys, 2 faults: 103,592 states. A lost update, a torn read and a wedged lock need two calls, an undone value two values. |
| `blobs_safe` | Is what a record refers to readable? | 4 calls, 2 digests, 2 kills: two writers, a prune and a later writer of one digest at once, and records that let go of a blob. |
| `ocr_safe` | Do batches get predictors of their sizes, does the backoff leave the GPU last, does every request end? | 2 requests, chunks of 8 pages, memory of 0 to 4 pages: sizes 1 to 4, every order of misses, builds and backoffs; 135,076 states. |
| `sibling_safe` | Does launching find a running sibling again, and does the registry lead to the live port? | 3 requests, 2 apps on neighbouring ports of 2, 2 processes, 2 faults: 1,525,298 states; a launch after a launch after an exit, an app on the other's port, no port left. A second process needs two processes. Requests and processes are interchangeable. |
| `pages_safe` | Do memory and replay agree, do snapshots change nothing, is no update lost? | 2 copies, one node id, versions 1 to 3, snapshots every 2 events instead of 20, up to 2 pending events, 1 fault, for a page and for a project: 613,914 states. A conflict needs two copies, a gap needs a failed save and one event more, a wrong snapshot one event after it. One copy sends the commands of the app that prepares pages, with values JSON gives back, the other those of the labeler, with such and others, so that orders of kinds differ and typed values come before and after a snapshot. `ImagePreprocessed`, which does what `OcrCompleted` does without clearing the flag, is not sent. |
| `update_safe` | Does the record name what was replaced, is a local-dev install left alone? | 3 requests, 3 releases, 2 faults: one request that replaces, one that records beside it and one after both; a release in between, a turn to local development at any point, metadata that gets unreadable: 142,932 states. Requests are interchangeable. |

Bounds: `MaxFaults`, `MaxKills` and `MaxRestarts` bound counters of faults in the
guards of the fault actions; `MaxVersion`, `MaxPending` and `MaxRelease` bound the
versions, the unsaved events and the releases; `MaxTries` caps a count of which
only 0, 1 and more are told apart;
`MaxFree` bounds what a memory probe can say (beyond 8 pages it changes nothing; the run stops
at 4, which leaves two steps of backoff).
`CHECK_DEADLOCK FALSE` is set in every configuration because every instance comes
to rest once its calls are used up.

## Fairness

- `LongJobs`: the operating system runs workers and delivers SIGTERM to them;
  executor threads run; the event loop resumes ready coroutines; a polling stream
  wakes (it sleeps 0.1 s). All weak. No caller has to call, no app has to come back,
  no fault has to happen. Nothing is assumed about a worker blocked in a write.
- `DesktopShell`: weak fairness of the main thread, where the health poll and
  the join have deadlines in the code; of the server thread's bind; and of the
  window's end once `quit_event` is set (`_destroy_on_quit`). A server may take for
  ever to stop and a user never close the window.
- `SuiteFiles`: weak fairness of a process that holds a lock or gives up;
  strong fairness of taking a lock, because `FileLock` polls: a lock that is free
  again and again is taken. A process that hangs with a lock never goes on.
- `OcrBatches`: weak fairness of each request's next step: the event loop and
  the executor run.
- `BlobStore` has no liveness property: its calls do not wait for anything.
  `SiblingLaunch` has none either: its only waits end at deadlines. `PageLifecycle`
  and `UpdateFlow` have none: a request saves or loads when it likes, and uv may run for ever.

## Proofs

A module `XProofs` holds the machine-checked proofs about `X`. They hold for every value
of the constants: any numbers of jobs, runners, launches, calls, copies, processes and
ports, any scripts and capacities, any number of faults. The bounds that keep the runs small
(`MaxFaults`, `MaxVersion`, ...) are constants as well and may have any value. The only
assumptions are those the modules state about their constants, which TLC evaluates in the
runs: `JobsAssumption`, `ShellAssumption`, `FilesAssumption`, `BlobAssumption`,
`OcrAssumption`, `LaunchAssumption`, `PageAssumption`, `UpdateAssumption`. They say that bounds
are natural numbers, that port ranges are not empty and that the values which stand for
"nothing" differ from the things.

Every proof has one shape. The invariants of a run are seldom inductive as they stand, so
`IInv` is a conjunction of named parts that is; one lemma per action (or per
part) shows that it stays; the theorems follow from it.

| Module | Theorems | What makes the invariant inductive |
|---|---|---|
| `LongJobsProofs` | `TypeCorrect`, `LogIsOutput`, `VerdictIsTrue`, `TerminalIsExplained`, `StreamsArePrefixes`, `EndedStreamsAreComplete`; of steps: `UntouchedRowsAreFinal`, `OnlyARaceRevives`; the refinement `RunnerIsAFeed` | see below |
| `DesktopShellProofs` | `TypeCorrect`, `DuplicatesNeedRaces`, `PidfileLeadsToTheShell`; of steps: `RunningPidfilesStay` | `PidInv`: ids are unique among shells and never a stranger's; `OneInside`: without a race one shell at most is past its check; `PidfileInv`: the pidfile is the one of that shell. The last two need each other: the next check stops at the pidfile, and only who is inside writes it. `ReapInv`: while somebody is about to reap, the pidfile is no running shell's. That has nothing to do with what the look found, which may be out of date by the unlink: nobody can acquire beside the holder of the lock, also not who was given the id. |
| `SuiteFilesProofs` | `TypeCorrect`, `UnreadableNeedsFailure`, `PutDeviceKeepsTheRest`; the refinement `FilesImplementStore` | `LockInv`: who is inside a document holds its lock, and what it loaded is what is there; `CorruptInv`: an unreadable document has a writer in it or one that died; `HeldInv`: between the sessions of `put_device` its section is what it read, up to what the model drops, unless `stale` |
| `BlobStoreProofs` | `TypeCorrect`, `RecordedCanBeRead`, `PartialNeedsOverlap`, `WriteFailureNeedsOverlap` | `SingleInv`: two writers of a digest are `overlapped`; so `WriterInv`: a writer alone holds the `.tmp` it opened; `UnlinkInv`: what a prune unlinks was not live when it began |
| `OcrBatchesProofs` | `TypeCorrect`, `BatchesGetTheirSizes`, `CpuIsTheLastResort` | `CacheInv`: what a batch stored has the sizes it is stored under; `BatchInv`: how the loop's own sizes, its tries and its predictor hang together. The sizes are halves of halves and never 0. |
| `SiblingLaunchProofs` | `TypeCorrect`, `OneProcess`, `RowsAreLive` | `RowInv`: the row of an app with a registered process names the port of one, or is lost and the app `atRisk`; `GoneInv`: so is every app whose binary is away. `RequestKnows`: as long as nothing troubled an app, a request that asks can only meet a serving process on the very port it asks, and one that was refused meets none; with `AtMostOneProcess`, `AtMostOneRequest`, and `UntroubledRow`: a process past its registration is in the row, if there is one |
| `PageLifecycleProofs` | `TypeCorrect`, `MemoryIsReplay`, `LoadsAreReplays`, `SavedIsReloaded`, `WritersFollowTheHistory` | see below |
| `UpdateFlowProofs` | `TypeCorrect`, `RecordIsRight`; of steps: `LocalDevIsSafe` | `NotedInv`: the version a request read is the installed one unless noted otherwise; `WriterInv`: who wrote the record last finds in it what it wrote; `MetadataInv`: no metadata of a local-dev install without an installed version; `GuardInv`: a local-dev install beside a request that was let through came later than it, or its metadata cannot be read by now |

**LongJobs.** That a verdict finds the whole output recorded depends on the pipe being
empty when the drain ends, on a closed or dead worker writing nothing more, and on the row,
the task and the worker beginning and ending in step: `TaskInv` (a task has a runner, its
worker begins with it, a task on its way has its process in the dict, only an abandoned worker
has pipes nobody reads, and a task that gave its worker up has written an exception or is `lost`), `PipeInv` (the pipe
holds lines written and not yet recorded, all later than the recorded ones), `RowInv` (who
can have written a terminal row), `DrainedInv` (past the drain nothing is left to read),
`StreamInv` and `CancelInv` (a cancel between its two sections keeps the event loop of its
runner, so that only another runner's job can be at `spawn` then).
`EndedStreamsAreComplete` needs one argument more: a finished row is written by a task that
is done, which puts its job under `VerdictMatchesWorker` and so makes the log, and with it
the prefix the stream has yielded, complete. `RunnerIsAFeed` is `Spec => Feed!Spec`: each
step of the runners publishes, closes, opens, delivers or ends one topic's feed, or changes
nothing of it. It needs `ScriptInv`, `IdleInv` and `EndedInv` besides (what runs is a command's
script; a cancel that has not begun touches no job; an ended stream was one of a job), and the
invariant `StreamIsPrefix`.

**PageLifecycle.** Two layers. The first is about versions and events alone: `SavedInv` (what
a copy no longer has pending is what is stored, unless a save of its failed), `SeenInv` (a
writer that lost nothing had seen all that lies below its events), `SnapInv` (no gap below a
snapshot, so that a snapshot cannot hide one). That gives `WritersFollowTheHistory`. The
second (`RecInv`) is about the records: `Sound` (the history of a copy begins with a creation
and goes on with commands, `Fit`; its record is, as JSON, their replay, and in every value when
the arguments were such as JSON gives back, `FollowsFrom`) and `StoreInv` (every snapshot is the
JSON of the replay of what is stored up to it). It rests on lemmas about the operators:
`AppliedType` and `HalfAppliedType` (a command keeps the head, the history and the changelog
within the graph, also one that raises half-way), `AppliedJson` (the dump of what a command makes is
what the dumped command makes of the dumped record), and of the replay `AfterStep`, `AfterJson`
(replays of events that are one as JSON are one as JSON), `AfterPlain` (JSON gives back what follows
from events it gives back), `AfterAgrees` (it depends on no other events), `AfterChain` (it may begin at a snapshot)
and `ReadIsReplay` (which puts these together for a load). Replays are of any length; these lemmas are inductions, done by looking at the least version
at which the claim would fail (`LeastOf`, from the well-foundedness of `<` on the natural
numbers). `After` is a recursive function for that reason. `SavedIsReloaded` is stated in
`PageLifecycleProofs` alone: a copy that nobody spoilt or overtook is, once saved, what a load gives: as JSON
always, in every value when all its arguments were such as JSON gives back. Without that
condition TLC finds the equalities of `MemoryAgreesWithReplay` and `LoadsAgreeWithReplay` violated.

**What is only model-checked.** Everything about liveness, for fairness and ENABLED are
out of the prover's reach: `SupervisedSettles`, `CancelReturns`, `LaunchSettles`,
`ClosedShellsLeave`, `CallsEnd`, `RequestsEnd`, and the fairness of `ImplementsFeed`
(`RunnerIsAFeed` proves its initial states and its steps). The three disagreements under Findings are
shown by TLC's counterexamples.

## Findings

Disagreements between the code and what its comments, tests or documents say, each
with its line in `PROJECT.json`. With a run whose counterexample shows them:

1. A cancel and the supervision of the same job overwrite each other's state
   (`jobs_cancel_race`).
2. A worker that writes much to stderr is stuck with its job (`jobs_stderr_stuck`).
3. `restart()` finds its own pidfile, takes itself for another instance and exits
   (`shell_restart`).

Named by an exception in an invariant (without the exception TLC shows the behaviour): a
catch-all that cannot write leaves a job `running` with its process forgotten, and a later cancel
by the same app writes `cancelled` over a live worker (`TerminalMeansExited`); a worker that was given up, or
whose app died, loses its last lines (`LogFollowsOutput`); two writers of one new blob can publish part
of it (`PartialComesFromOverlap`); launches that overlap a start or ask too busy a
server start a second sibling (`OneProcessUntroubled`); a row can name the port of a
process that is gone while another serves, and a running sibling can lose its row to the
registration of another app (`RowNamesLivePort`); `PUT
/api/suite/device` undoes what was written between its sessions, and drops the keys of the common
section that its model does not know (`DevicePutKeepsTheRest`);
the OOM backoff falls back to the CPU early, when its own pick is 1 from the start or the cached
predictor is one of a single page (`FallsBackLast`); changed arguments, direct changes
of the record and a command that raises half-way make memory differ from replay, and so do
values that JSON does not give back (`MemoryAgreesWithReplay`); such values in the changes of
`labeler_edited` are restored as they were from an event and as strings from a snapshot
(`LoadsAgreeWithReplay`); a later request overwrites the rollback record
(`RecordNamesReplaced`); uv replaces a local-dev install that came after the guard's look or whose
metadata cannot be read (`LocalDevIsLeftAlone`).

Read from the code while modelling it: a line whose `kind` is a list or an object fails its job,
against the docstring that says a bad line cannot; one odd section makes the preferences unreadable for
all apps; the watchdog never sees a dead server; the
single-page stage caches default-size predictors under other keys; `del
current_predictor` frees no memory; check and acquire of the pidfile are separate;
the health poll accepts any server on the port; the field precedence of
`register_self` differs from its comment; racing misses build a predictor twice.

## Not modelled, and why

- Device probe, Modal and shared-container dispatch, shortcuts, schemas, paths, auth, storage:
  no state between calls, or stubs; a state machine would say nothing.
- Within the modelled parts: the choice of a GUI backend, the JS bridge and the window's
  dialogs; windowed launches of a sibling; the fields of the preferences and the registry; the resolution of the
  effective device; tesseract and stock-CPU stages; the stage table; which shard a page goes to (the
  caller names the project, the store looks nothing up) and the stub of a remote store; dead branches of
  the provenance graph, which nothing writes; `GET /api/suite/update`, which keeps nothing and
  fails closed, and the comparison of versions; the device list of a probe; wording and
  logging; process umask and file modes.

## Plan

Done, in this order: `LongJobs` with `EventFeed` (the most state and the most
concurrency), its proofs, `DesktopShell`, `SuiteFiles` with `SectionStore`,
`BlobStore`, `OcrBatches`, `SiblingLaunch`, `PageLifecycle`, `UpdateFlow`; then the proofs of
every safety property of the runs, and of the steps of both refinements.

Next:

1. Compositions, each with its proofs: `PageLifecycle` with `BlobStore` (the live references of a prune are the
   `blob_refs` of loaded records), `UpdateFlow` with `DesktopShell` (`restart()` after
   `restart_required`), and windowed launches, that is, `SiblingLaunch` with the pidfile of
   `DesktopShell`.

# updater-service: TLA+ verification

TLA+ modules that model updater-service (Go, under `src/`), the TLC
configurations that check them, and TLAPS proofs about them. File references
are relative to the repository; line numbers are in `PROJECT.json` under
`map`.

## 1. The system and its parts

updater-service installs configuration files on hosts. A client creates an
operation for a service and a node, uploads a file with a resumable upload,
and polls the operation's status.

| Part (source) | State | Operations | Talks to |
|---|---|---|---|
| Operation store (`internal/operation`) | `operations` (status, `updated_at`), `operation_files` | Create, AdvanceStatus (rank-ordered UPDATE), ClaimForExecution, file Create | MariaDB; called by entry, worker, monitor |
| Timeout monitor (`operation/timeout_monitor.go`) | none | every minute, in every worker: one UPDATE to FAILED | the store |
| Entry (`internal/entry`) | in-memory state of the upload hooks only | create update, upload create/finish hooks, dispatch, result handler, node handlers, drain/undrain | store, NATS, node registry, search |
| Messages (`internal/message`, `subjects`, `nats`) | what is in flight | `update.command.<node>`, `update.result`, `node.*` | entry <-> worker |
| Worker (`internal/worker`) | the command it serves | claim, download, backup, apply, restart, health check, rollback | store, NATS, files, docker |
| File deployment (`internal/fileops`) | configuration file, backups | Backup, Apply, Rollback (copy, fsync, rename) | file system |
| Docker runner, health checker (`internal/docker`, `healthcheck`, `retry`) | the container | `docker restart`, HTTP polling with backoff | host |
| Downloader (`internal/filetransfer`) | part file, state file | resumable chunked download, verification | entry's file endpoint |
| Node registry (`internal/node`) | `nodes` (instance_id, status, lease) | Register, Heartbeat, Goodbye, MarkExpired, SetDraining | MariaDB |
| Heartbeat manager (`internal/heartbeat`) | position in its loop | register, heartbeat, goodbye | NATS |
| Search index (`internal/search`) | a copy of operations | EnsureIndex, IndexOperation, SearchOperations | Elasticsearch; called by entry and worker |
| Services, config, hashing, logging, OpenAPI, db | constant | start-up | - |

Every process is concurrent with every other: several entry replicas, several
workers and worker restarts, a monitor in each worker, and clients. Nothing is
shared but MariaDB rows, NATS messages and the host's files. Core NATS keeps no
message for an absent subscriber. A job of a worker is not resumed by anyone
when its process ends.

What makes each part correct, and what is hard about it:

* **store**: the status of an operation only moves up the ranks, whichever of
  three writers moves it and in whatever order results come; one worker claims.
* **monitor**: it must not fail an operation while its file is being replaced.
* **entry**: two uploads may race for one operation; a hook may stop between
  two statements; a target node may be replaced between lookup and dispatch.
* **worker**: statuses in the store and the state of the host must tell the
  same story through failing calls, failing restarts and process death.
* **file deployment**: whoever reads the configuration file, also after the host
  went down, reads a whole one; a job can put back what it replaced.
* **search index**: written after separate reads by processes that do not know of
  each other, it may lag behind the store, but must show nothing that is not so,
  and must catch up with a success.
* **registry**: three unordered subscriptions and several replicas write one
  row; drains must last; a dead node must not be offered for updates.

The full list of hazards, each at its line, is in `PROJECT.json`.

## 2. Modules

```
OperationStatus            the statuses, their ranks, the monitor's list (no state)
 |- OperationLifecycle     ABSTRACT: the edges a polling client may see
 `- OperationStore         operations and operation_files, one action operator per statement
     |- Messaging          commands and results in flight
     |   |- EntryServer    create, upload hooks, dispatch, results
     |   `- WorkerServer   process start and death, command handler, execution, rollback
     |       `- UpdateFlow composes both with the monitors; implements OperationLifecycle
     |           |         and, per location, AtomicConfig
     |           |- UpdateFlow_proofs             types, claims, files on record, ranks
     |           |   `- UpdateFlowLifecycle_proofs    the first refinement
     |           |       `- UpdateFlowHost_proofs     the host, the second refinement
     |           `- MCUpdateFlow (race, two, settle, stuck)
     `- SearchIndex        who indexes what when, and a client that pages
         |- SearchIndex_proofs
         `- MCSearchIndex (search, pages)
AtomicConfig               ABSTRACT: keep, install, restore a configuration in one step each
 `- FileDeployment         the same with inodes, names, copies, fsync and rename
     |- FileDeployment_proofs                 the refinement
     `- MCFileDeployment (deploy, halfwritten)
NodeRegistry               heartbeat loop, subscriptions, node row, monitor, drain requests
 |- NodeRegistry_proofs
 `- MCNodeRegistry (registry, follows, drain)
Downloader                 part, state and destination file, goroutines, faults, repeated calls
 |- Downloader_proofs
 `- MCDownloader (download)
```

`AtomicConfig` joins two levels: `FileDeployment` implements it with system
calls, and the steps `Backup`, `Apply` and `Restore` of `WorkerServer` are its
steps (`HostsDeployAtomically`). Both hold when one job at a time works on a file.

### OperationStatus, OperationStore

`status[op]` is the status column (`Absent` when there is no row) and `file[op]`
the upload described by the `operation_files` row. Each SQL statement is one
atomic step. `CanAdvance` is the WHERE clause of `AdvanceStatus`, with its odd
case that lets SUCCEEDED or FAILED be rewritten with itself. `AdvanceThenGet`
is the pair of calls both `advanceStatus` (worker) and `advanceOperation`
(entry) make: its result `ok` is FALSE when nothing matched, when the UPDATE
failed, and also when the UPDATE took effect and the `Get` after it failed.
`Reap(expired)` is the monitor's UPDATE. Time is left out: which rows in a
reapable status are older than the cutoff is any set, because each worker
computes the cutoff from its own clock and its own `OPERATION_TIMEOUT`.

### Messaging

Both subjects are sets that only grow. A published message may be handled at
any later time, any number of times (each entry replica subscribes), or never.
Not sending a message and never delivering it look the same, so a publish that
fails needs no case of its own, except where the code branches on the error.

### EntryServer

`upload[u].at` is the position of the tusd hooks for upload `u`: *uploading*
after `onTusdUploadCreate`, *stored* after `FileRepo.Create`, *located* after
the node was read (its instance id is kept for the command), *dispatched* after
the advance to DISPATCHED. `UploadAborted` ends a hook between two statements:
a crash of the entry or a cancelled request. An upload for an operation that is
not PENDING is answered 409 without an error, which does not stop tusd from
creating it, so it may go on and is refused by `SaveFile`. In this composition the node
registry is reduced to what dispatch reads of it: `registry[n]` is the instance
of an ONLINE node, or `NotOnline`, and changes freely. `NodeRegistry` is the
detailed model of the same table.

### WorkerServer

A member of `Worker` is one run of the process; a restart is another member
with the same node id. `job[w].at` is the statement at which `handleCommand`,
`executeUpdate` or `rollbackOperation` stands, and `job[w].backup` the backup
path (`NoConfig` for the empty path, which is what selects between rollback and
`handleExecutionFailure`). `config[l]` is the configuration file below a
`SERVICES_ROOT` and `live[l]` what the container has loaded. There is one
service, so all operations of a location meet in one file. `Apply` and
`Restore` are single steps because their last statement is a rename and an
error before it leaves the target alone: the steps of AtomicConfig, which
FileDeployment implements as long as one job at a time works on the file.
`docker restart` may fail before or after its effect.

### OperationLifecycle

The abstract specification: each status moves along `Edges` and nothing else.
`UpdateFlow` implements it with the identity mapping on `status`
(`FollowsLifecycle`). Three edges are wider than the picture in
`docs/architecture.md`, because the code takes them: TRANSFERRED may be skipped
(only the entry writes it), ROLLING_BACK may follow without FAILED (the outcome
of that advance is ignored), and ROLLED_BACK or ROLLBACK_FAILED may follow
ROLLING_BACK directly.

### AtomicConfig, FileDeployment

`AtomicConfig` is the promise: a job may keep the present configuration, install
its own if the present one is what it has kept, and put the kept one back; each
is one step, and after a power failure there is a whole configuration, the
present one or the one that was last stable.

`FileDeployment` has the system calls of `Deployer.Backup`, `Apply` and
`Rollback`, and the calls `executeUpdate` and `rollbackOperation` make of them.
`dir` maps names to inodes, `data[i]` is the content of an inode in `Size`
pieces, `dirty` are the inodes with data not yet synced, `disk` the directories
as last written to disk. `job[j].call` and `.at` are the call and the statement,
`.second` the second in the backup's name, `.source` and `.temp` the inodes
`copyFile` has open. `Open` is the `os.Stat` and `os.Open`, `Truncate` the
`O_CREATE|O_TRUNC`, `Copy` one round of `io.CopyBuffer`, `Sync` and `SyncName` the
two fsyncs, `Rename` the last statement. `Error` ends a call before any of them;
`Crash` ends the process; `PowerFailure` ends everything, brings back the
directories of `disk` and may lose whatever is in `dirty`.

Assumed of the file system: a rename is atomic, and directory changes reach the
disk in their order, at any time (`Commit`). No code syncs a directory, so a
configuration may come back after a power failure that was replaced before it;
`AtomicConfig` allows that.

### SearchIndex

`doc[op]` is the status in the document of `op`. `advanceStatus` and
`advanceOperation` are three steps of a caller, `Advance` (the UPDATE), `Get` and
`IndexOperation`; a caller is the result subscription of one entry process, a
create or a dispatch request, or a job. The monitor and a claim write the store
and index nothing. A call may come to nothing between the UPDATE and the
document: its `Get` fails (`GetFails`), its index request fails, or its process
ends (`EntryEnds`, `WorkerEnds`). Then the operation is in `missed` until another
UPDATE makes a new call for it, and an index request that had been sent leaves its
document in `late`, from where Elasticsearch may still carry it out at any time
(`IndexLate`). A worker whose UPDATE or `Get` failed goes on as though the status
had been refused (`Miss`), as its code does.

`mapping` tells how the index came to be: a document that is indexed before
`EnsureIndex` succeeded makes Elasticsearch guess. `older` are documents of a
history of SUCCEEDED operations that nobody writes any more, and `client` reads
the pages of one search after another, from page 1 to the first that is empty.
Hits are sorted by `updated_at`, newest first, so documents that appear or change
move those of the history back, never forward, unless one that was before them
leaves the filter. `Window` is Elasticsearch's `max_result_window` (10,000 unless
configured): a page that ends beyond it is an error, and the client gives up
without having seen an empty page. The total that comes with each page is not
modelled: Elasticsearch stops counting at 10,000 and the code does not ask it to
go on, so a client that counts pages by the total stops there, having read all
that the window lets it read and without an error.

Left out here, since UpdateFlow is about it: the files and the host; a job is the
sequence of statuses it writes and results it reports. Every process has
Elasticsearch configured. A limit of zero or less is not among the limits asked
for.

### NodeRegistry

The row of one node id, `process[k]` the position of run `k` in
`HeartbeatManager.Run`, `queue[r][s]` the messages of subject `s` that replica
`r` has yet to handle (FIFO per subject and replica, nothing orders two of
them), `request[q]` the position of the drain or undrain handler. Rows of
different nodes never meet in one statement (MarkExpired treats each alike), so
one row is enough. Each run has an instance id of its own, as `config.go` makes
one up at every start; an operator who sets `NODE_INCARNATION_ID` gives all runs
the same one, which this module does not cover (the run `race` has such workers).
The lease is the time left on it, counted down by `Tick`;
`lease_expires_at <= now` is `lease = 0`. The columns are DATETIME(6), so every
statement that matches a row changes `updated_at` and counts as affected.

### Downloader

`part`, `state` and `dest` are the three files, which survive the process;
`call`, `routine`, `pending`, `errors` and `lock` are the position of
`Download`, its goroutines, `chunkChan`, the number of errors in `errChan` and
the holder of `stateMu`, which do not. A chunk's content is abstracted to what
matters: never written, written in part, other bytes, the right bytes.
`downloadChunk` ends with the right bytes, with others unnoticed (another file
behind the URL and no ETag), or with an error before or after its first write;
`markChunkComplete` is two steps, the read and the replacement of the state
file. Everything that goes wrong, the end of the process included, spends one
of `MaxFaults`. In the service an operation is claimed once and its destination
is its own, so a second call for one destination comes only from a caller of
the component; the module models the component. `ExpectSHA256` says whether the
caller gives the SHA-256 to compare with; commands always carry one, and without
it nothing is said of the destination. `LoadState` resumes from the state file, or
replaces one that it cannot read or parse, or that is of another size, by an empty
one. One process at a time works on a destination.
The process ends; the machine does not (no unwritten cache is lost).

## 3. Runs

| Run | Instance | Checks | Shows |
|---|---|---|---|
| `race` | 1 operation, 2 uploads for it, 3 overlapping runs of its worker, two with one instance id that may die and one with another, faults, fair | TypeOK, SingleExecution, AppliesOnlyWhileApplying, DeploysFileOfRecord, StatusNeverRegresses, FollowsLifecycle, RefusedStaysRefused, DispatchedSettlesOrWedges | races for the file row, for the claim, between monitors, results and a job; a refused dispatch is never made up for; a command addressed to a run that was replaced; the four statuses in which an abandoned operation can stay, and no others |
| `two` | 2 operations on one node, 2 successive runs, both mortal, faults | SuccessIsLive, RolledBackIsRestored, HostsDeployAtomically | what is reported of the host is true, also after a crash mid-job, and no job replaces what it has not kept |
| `settle` | 2 operations, no faults, no death, existing configuration, fair | FailedIsUndone, WedgedIsHeld, DispatchedSettles | every dispatched operation ends; one that no monitor would fail has a running worker at it; FAILED leaves the file installed only after a lost or late SUCCEEDED |
| `registry` | 2 successive runs, 1 replica, drain and undrain, faults, fair | TypeOK, DrainEndsByRequest, OfflineOnlyWhenSilent, LaterRunKeepsRow, DeadNodeLeaves | late goodbyes and heartbeats, lasting drains; a dead node stops being ONLINE for good |
| `follows` | 2 overlapping runs, 2 replicas, one drain, fair | RowFollowsRun | the row heals after any interleaving |
| `download` | 3 chunks, 2 goroutines, 1 retry, 3 faults, any number of calls, fair | TypeOK, DestIsRight, RecordedIsWhole, NobodyBlocks, RecordsAreKept, CallReturns, EventuallyDownloaded | what a call leaves behind, wherever it ends, neither corrupts a later one nor stops it for good; `errChan` never fills up |
| `deploy` | 2 jobs one after the other, files of 2 pieces, 2 seconds, 8 inodes, any number of power failures | TypeOK, NeverHalfWritten, DeploysAtomically | copy, fsync and rename are one step to every reader, with errors, crashes and power failures anywhere between |
| `search` | 1 operation, 1 entry process that may end and start again, 1 older operation, a window of 3, failing Gets and index requests, 1 late document, limits 1 and 2, with and without a filter | TypeOK, IndexNeverAhead, FiltersWork, PagingMissesNothing, SuccessOnItsWay, SuccessStaysFound, SucceededIsFound | the index lags but does not lie; no interleaving, and no failure but that of the very call that was to index it, loses a success on the way; search catches up with it and keeps showing it, but for requests carried out late; paging over a moving index misses nothing |

Four runs state what a document or a comment says and the code does not do; TLC
finds the counterexample in each:

| Run | Document | Code |
|---|---|---|
| `stuck` | stuck operations are failed automatically (`docs/project.md:47`, `docs/architecture.md:93`) | the monitor skips BACKUP_CREATED, APPLYING, ROLLING_BACK, ROLLBACK_HEALTH_CHECKING |
| `halfwritten` | never a half-written config (`docs/project.md:41`), and workers share a SERVICES_ROOT (`docs/deployment.md:126`) | two jobs on one file share `target.new`: the truncation by one meets the rename by the other |
| `drain` | a drained node stops accepting operations, status DRAINING (`docs/client-to-entry.md:131`) | a request whose UPDATE matched no row, the node being OFFLINE, is answered 200 when the second read finds the node back ONLINE |
| `pages` | results are paginated with limit and page (`internal/entry/handler.go:298`) | the offset uses the limit asked for, the page the limit granted |

Further divergences met while modelling, which have no run of their own: every
rollback passes through FAILED, which the API calls terminal
(`docs/client-to-entry.md:111`); `MarkExpired` keeps DRAINING on a node whose lease
has expired (`docs/client-to-entry.md:135` says OFFLINE). The edges FAILED to
ROLLING_BACK in `OperationLifecycle` and `DeadNodeLeaves` (which says no more than
"not ONLINE") model each as it is. A success whose `Get` failed after the UPDATE,
or whose process ended before the index request, is not indexed again by anything:
no document promises that it is, and the properties of `search` except it by name.

Every property of a passing run has a mutant: a plausible bug in a mapped
definition (`Mutant...` operators next to the originals) under which TLC finds
it violated.

## 4. Bounds

* **UpdateFlow**: the sets are `Op`, `Upload`, `Worker`, `Node`, `Instance`,
  `Location`. Two of whatever races are enough for a race: two uploads for the
  one file row, two runs for the one claim, two operations for one file. The third
  run in `race` is the one that has replaced the others: a command for them is
  ignored, and its operation is failed by the monitor of the third. Jobs,
  uploads and messages are finite by themselves, so no counter is capped.
  `Mortal` bounds the number of deaths; where a property is about what death
  leaves behind, every run is mortal.
* `CallsMayFail` turns failing MariaDB and NATS calls on. Health checks,
  downloads, restarts and file operations may fail in every run.
* `Exclusive` says that at most one run is up at a location. `two` needs it:
  SuccessIsLive and RolledBackIsRestored are false when two workers replace one
  file at once. `halfwritten` shows the same on the level of files.
* `InitialConfig` chooses whether there is a configuration before the first
  operation. `settle` starts with one: a first deployment that fails has
  nothing to go back to and keeps its file, by design of the code.
* **NodeRegistry**: two runs give one succession; `Lease` 1 or 2 ticks is enough
  since only zero and non-zero are told apart; `MaxQueue` 1 or 2 undelivered
  messages per subscription (a full subscription drops, as a slow consumer
  does). `LaterRunKeepsRow` is stated for one replica and successive runs; with
  two replicas or overlapping runs a delayed registration does take the row
  back, and `RowFollowsRun` shows it is repaired. `drain` needs one run, one
  request and a lease of one tick.
* **Downloader**: two goroutines race for the state file; three chunks let one
  of them go on while the other is stuck or gone, and let an `errChan` of two
  overflow if a goroutine could send twice; three faults suffice for two
  goroutines that fail and a file that is not removed. Calls are not bounded.
* **FileDeployment**: two pieces are enough for a file that is half copied; two
  jobs for a temporary or a backup left behind by, or shared with, another; two
  seconds for equal and different backup names. Eight inodes are more than the
  names and open files of two jobs can hold at once: truncation always finds an
  unused one (each name leads to at most one inode, in memory and on disk).
  Power failures are not bounded.
* **SearchIndex**: one operation has three callers that overlap (entry results,
  dispatch, job), which is enough for any reordering of reads and writes of its
  document; with it a history of one fills a page of two, or two of one, and leaves
  others empty. A window of three is reached by the second page of two and by the
  fourth of one, so that searches both end and run into it. `MaxLate` bounds the
  documents that may be indexed late to one: a second would change no more than
  which of two old statuses is shown. `pages` has a history of three, a window
  beyond it and a limit of three where two is the most granted. With two entry processes SuccessStaysFound and SucceededIsFound
  are false: each handles results at its own pace, and one may index TRANSFERRED
  after the other indexed SUCCEEDED. PagingMissesNothing is then false too, but
  only of a search for SUCCEEDED: the operation that leaves the filter moves those
  behind it forward, and the client skips one.
* Deadlock is checked for UpdateFlow and Downloader. It is not for NodeRegistry,
  where everything stops once all runs have ended, no message is left and all
  requests are answered, nor for FileDeployment (all jobs over, the clock at its
  end), nor for SearchIndex (all jobs over, no entry running).

## 5. Fairness

UpdateFlow: weak fairness of each worker's job steps (every call in a job has a
timeout, so it returns), of starting the processes, and of the monitor for each
operation: its ticker fires forever in a running worker and a row that is not
written grows older than any cutoff. Nothing is assumed of clients, of the
entry or of the delivery of any message: `DispatchedSettles` holds even when no
result is ever handled, since the monitor then fails the operation.

NodeRegistry: weak fairness of the ticker of a running process, of each
subscription's goroutine, of time and of the monitor. Nothing obliges a run to
start or to end, or a request to be made.

SearchIndex: weak fairness of the `Get` and `IndexOperation` that follow an UPDATE,
succeeding or failing (`CallStep`), as each has a context with a timeout. Nothing
else: results may never be delivered, jobs and processes may end, requests that
failed may never be carried out.

Downloader: weak fairness of the statements of `Download` and of each goroutine
(requests and the waits between attempts are bounded by the context's timeout),
and a caller that calls again. `EventuallyDownloaded` relies on faults being
finitely many, `CallReturns` on nothing but fairness. A waiter for
`stateMu` needs no strong fairness, as the others run out of chunks.

## 6. Proofs

All proofs are checked by TLAPS, for every value of the constants that satisfies
the named assumptions (`StoreAssumption`, `MessagingAssumption`,
`EntryAssumption`, `WorkerAssumption`, `DeploymentAssumption`, `SearchAssumption`,
`RegistryAssumption`, `DownloaderAssumption`: the types of the constants, and that
the special values are not ordinary ones). What a theorem assumes beyond them is
in its ASSUME.

| Theorem | States |
|---|---|
| `TypeCorrect` | `Spec => []TypeOK` |
| `ExecutedByOne` | `Spec => []SingleExecution` |
| `AppliedWhileApplying` | `Spec => []AppliesOnlyWhileApplying` |
| `DeployedIsOnRecord` | `Spec => []DeploysFileOfRecord` |
| `NeverRegresses` | `Spec => StatusNeverRegresses` |
| `ImplementsLifecycle` | `Spec => FollowsLifecycle` |
| `WedgedHeld` | `Spec => []WedgedIsHeld`, without failing calls or deaths |
| `RefusedForGood` | `Spec => RefusedStaysRefused` |
| `SuccessReportsLive`, `RolledBackRestored` | `Exclusive` implies `Spec => SuccessIsLive`, `Spec => RolledBackIsRestored` |
| `HostsImplementAtomic` | `Exclusive` implies `Spec => HostsDeployAtomically` |
| `FailureIsUndone` | `Spec => []FailedIsUndone`, without failing calls, deaths or first deployments, under `Exclusive` |
| `DeploymentTypeCorrect` | `Spec => []TypeOK` of FileDeployment |
| `NoHalfWrittenConfig`, `DeploymentIsAtomic` | `Exclusive` implies `Spec => []NeverHalfWritten`, `Spec => DeploysAtomically` |
| `SearchTypeCorrect`, `IndexIsNeverAhead`, `IndexIsMadeFirst` | `Spec => []TypeOK`, `[]IndexNeverAhead`, `[]FiltersWork` of SearchIndex |
| `SuccessStays` | with one entry, `Spec => SuccessStaysFound` |
| `SuccessIsOnItsWay` | with one entry, `Spec => []SuccessOnItsWay` |
| `PagingIsComplete` | `Spec => []PagingMissesNothing` for limits from 1 to `MaxLimit` and any window; with one entry, if there are searches for SUCCEEDED |
| `RegistryTypeCorrect` | `Spec => []TypeOK` of NodeRegistry |
| `DrainingLasts` | `Spec => DrainEndsByRequest` |
| `OfflineMeansSilent` | `Spec => OfflineOnlyWhenSilent` |
| `LaterRunStays` | with one entry and runs that do not overlap, `Spec => LaterRunKeepsRow` |
| `DownloaderTypeCorrect`, `DestinationIsRight`, `RecordedChunksAreWhole` | `Spec => []TypeOK`, `[]DestIsRight`, `[]RecordedIsWhole` of Downloader |
| `RecordsSurvive` | `Spec => RecordsAreKept` |
| `NobodyIsBlocked` | `Spec => []NobodyBlocks` |

*UpdateFlow, claims and files.* `SingleExecution` and `AppliesOnlyWhileApplying`
are not inductive: nothing in them says that an operation some worker holds
cannot be DISPATCHED again and be claimed anew, or that no SUCCEEDED or FAILED is
in flight that would be applied while the job is in APPLYING. `IndInv` adds both:
held and reported operations are `Started` (beyond DISPATCHED, which ranks make
permanent), and before the health check an operation has no result beyond
TRANSFERRED (`ReportsKeepBehind`), which needs SingleExecution in turn, since
only the holder of an operation publishes for it. The proof has an effect lemma
for the steps of a job, one lemma for the other actions, and one step per action
in the preservation proof. `Records` is a second, independent invariant: uploads
past `FileRepo.Create`, commands, jobs, backups and configurations all carry the
file on record, because an INSERT never replaces a row.

*UpdateFlow, the lifecycle.* Ranks alone allow steps that are no edges, such as
SUCCEEDED to ROLLING_BACK. `LifecycleInv` adds how far an operation has come at
least at each statement of its job (`JobsReached`) and for each result in flight
(`ReportsReached`), and that what is held has not ended (`HeldUnfinished`). Each
write is then an edge from whatever the ranks leave. `RefusedStaysRefused` needs
`UploadsOnRecord`: only the upload on record reaches the dispatch.

`WedgedIsHeld` is what keeps `DispatchedSettles` from failing in the statuses the
monitor skips. `HeldInv` adds that a job that has not begun its rollback finds its
operation in no status of one (`RollbacksByJob`): otherwise the FAILED a job
writes on its way out could be refused and the operation be left in
ROLLING_BACK; and that only running workers hold jobs (`JobsRun`). It assumes, as
`settle` does, that no MariaDB or NATS call fails and that no process dies. It
does not assume `Exclusive`. When a process dies the property is false, which is
what `stuck` shows.

*UpdateFlow, the host.* `HostInv` says, under `Exclusive`, what is installed and
loaded at each statement of the one job of a location (`HostAs`), that a dead run
has no job and that jobs work on their own node's file. The two action
properties and the refinement of AtomicConfig follow, each step of a job being
one of Keep, Install, Restore, Forget or a stutter. Without `Exclusive` all three
are false. `FailureIsUndone` is about late and lost SUCCEEDED: `UndoneInv` says
that an installed file belongs to an operation reported successful or seen
through to its rollback (`SeenThrough`), or to the job under way. Its assumptions
(no failing MariaDB or NATS call, no death, a configuration to begin with) are
those of `settle`; a job that dies after Apply does leave its file behind.

*FileDeployment.* That a rename installs a whole file needs the whole path of the
copy: `DeploymentInv` says that at most one job is active, that an inode has one
name, in memory and on disk, and no job can write what a permanent name leads to
on either (`NamesApart`), that permanent names lead to synced, whole files
(`PermanentSafe`), that the copy agrees with its source as far as it has come
(`CopyAsSource`), and that the backup a job relies on is what it is about to
replace (`KeepsBackup`). A second job within the same second replaces the backup
of the first, and the first no longer needs it.

*SearchIndex.* `IndexNeverAhead` is not inductive: a call, or a request that failed
and may be carried out late, may hold what was read. `CallsBehind` and `LateBehind`
say that neither is ahead of the row, for any number of callers at once, because
the ranks of rows only grow. `FiltersWork` adds that there are calls and documents
only once an entry has served, which is after `EnsureIndex`.

That a success which is shown stays shown takes the course of its operation
(`Course`): a job reports failures only once it has come to one and a success as
its last act, so when SUCCEEDED is written nobody of the operation's own callers
is about to index anything, and the client and the job are past. The subscription
of the entry is the one that writes it. With a single entry it follows
(`NothingOlder`) that whatever is indexed later was read later; `SuccessStays`
assumes just that, and is false without it. Job and client do not keep each
other waiting, results may be repeated and reordered, any Get or index request may
fail and any process end. Only a document that an earlier, failed request left
behind can replace the success (`OutdatedLate`), and the property says so.

`SuccessIsOnItsWay` says how a success can be lost between the row and the index,
and that there is no other way: the caller that writes SUCCEEDED has yet to read
it, and a call that is to index it either does, or goes on, or fails or ends
itself, which puts the operation in `missed` (`PendingStep`). What failed before
the success was written does not count: the UPDATE that writes it takes the
operation out of `missed` (`MissedStays`). The end of a job, which does drop a
call, comes too early to lose the success: a job's own call is over before it
reports one.

Paging rests on `ReadSoFar`: of the history, the client has been shown all that
stands before the next page. Documents are finitely many (`FiniteDocs`) and none
is deleted, so the position of an older document never falls unless a newer one
leaves the filter (`KeepsSuccesses`), which only a search for SUCCEEDED can meet
and `SuccessStays` excludes, with its exception. The theorem is about a client
that has come to an empty page; with a history longer than the window none does.
The limits assumed are those the service grants; above them the theorem is false,
which is what `pages` shows.

*NodeRegistry.* `TypeOK` is not inductive: a request past its first read would
write a row where none exists. `RegistryInv` adds `LookedAtRow`, that it has found
one, which holds because rows are never deleted. `OfflineMeansSilent` adds that whoever has a
goodbye on its way is gone (`GoodbyesOfGone`), for messages lost or late and any
overlap of runs: no run starts twice. `LaterRunStays` is about the order of
registrations: `SequentialInv` says that runs that do not overlap start in order
(`RunsFollow`), that their registrations wait in that order and none of them is
of an earlier run than the row (`RegistersInOrder`), and that the row is of a run
that has started (`RowStarted`). One replica and `~Overlap` are needed: a second
subscription, or a second run, may deliver an earlier registration last.

*Downloader.* None of the three is inductive alone: a chunk that is recorded
could be fetched again, or the state file replaced by what was read of it long
ago. `DownloaderInv` adds that a chunk is fetched by one goroutine and only
while it is neither pending nor recorded (`FetchedOnce`), that the holder of
`stateMu` has read what the file still says (`LockProtectsState`), that a chunk
about to be recorded is whole, and that nobody writes between the comparison of
the SHA-256 and the rename (`VerifiedIsRight`). `RecordsSurvive` is about the
goroutines: `loadOrInitState`, which may start from nothing when it cannot use the
file, comes before there are any. `NobodyIsBlocked` counts: there are
never more errors in `errChan` than goroutines that have returned (`SentOnce`), so
that one which has not returned finds room in a channel made for all of them.

*Model-checked only*: everything under fairness, which is beyond the prover
(DispatchedSettles, DispatchedSettlesOrWedges, DeadNodeLeaves, RowFollowsRun,
CallReturns, EventuallyDownloaded, SucceededIsFound). What safety they rest on is
proved: `WedgedHeld` for DispatchedSettles, `NobodyIsBlocked` for CallReturns,
`SuccessIsOnItsWay` and `SuccessStays` for SucceededIsFound. Every invariant and
every action property of the passing runs is a theorem.

## 7. Running

```
tlc -workers 2 -config race.cfg     MCUpdateFlow      # also two, settle, stuck
tlc -workers 2 -config deploy.cfg   MCFileDeployment  # also halfwritten
tlc -workers 2 -config search.cfg   MCSearchIndex     # also pages
tlc -workers 2 -config registry.cfg MCNodeRegistry    # also follows, drain
tlc -workers 2 -config download.cfg MCDownloader
tlapm UpdateFlow_proofs.tla         # and the other *_proofs.tla
```

## 8. Not modelled

* *Health checker and backoff*: a check may end either way at any time; attempts
  and delays only bound how long it takes. The arithmetic of
  `retry.Backoff.Delay` has no effect on any state.
* *Docker*: what happens inside `docker restart` is external; the model has its
  effect and its error in either order.
* *Read-only endpoints* (status, file download, node lists): they return a row or
  a file and change nothing. What their readers rely on are the invariants of
  the store, the uploads and the registry.
* *Configuration, start-up, logging, migrations, service table*: sequential code
  without shared state; `waitForElasticsearch` is in SearchIndex, the start of
  workers, monitors and heartbeats in UpdateFlow and NodeRegistry.
* *Hashing, OpenAPI documents, test tools*: a library call, generated text, no
  part of the service.
* *Time*: cutoffs, leases and timeouts are choices of when something happens, as
  clocks of several machines are not synchronised. A job's own timeout appears
  as a failing call.
* An upload's bytes: tusd, which is external, stores them before the hooks run.

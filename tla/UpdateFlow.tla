------------------------------ MODULE UpdateFlow ------------------------------
(***************************************************************************)
(* The whole path of an update: entry, store, bus and workers composed.    *)
(***************************************************************************)
EXTENDS EntryServer, WorkerServer

vars == << storeVars, busVars, entryVars, workerVars >>

TypeOK == StoreTypeOK /\ BusTypeOK /\ EntryTypeOK /\ WorkerTypeOK

Init == StoreInit /\ BusInit /\ EntryInit /\ WorkerInit

EntryStep ==
  \/ \E op \in Op : CreateUpdate(op)
  \/ \E r \in results : HandleResult(r)
  \/ \E u \in Upload :
       \/ UploadCreate(u) \/ UploadFinish(u) \/ LocateNode(u) \/ MarkDispatched(u)
       \/ PublishCommand(u) \/ UploadAborted(u)
  \/ \E n \in Node : NodeUnavailable(n)
  \* A registration may be delivered after the process that sent it has ended.
  \/ \E w \in Worker : life[w] # "unborn" /\ RegisterNode(NodeOf[w], InstanceOf[w])

WorkerStep(w) ==
  \/ Start(w)
  \/ Crash(w)
  \/ \E cmd \in commands : HandleCommand(w, cmd)
  \/ JobStep(w)

\* Every running worker runs a timeout monitor over all operations.
MonitorStep ==
  /\ \E w \in Worker : life[w] = "up"
  /\ \E expired \in SUBSET Op : Reap(expired)

Next ==
  \/ EntryStep /\ UNCHANGED workerVars
  \/ \E w \in Worker : WorkerStep(w) /\ UNCHANGED entryVars
  \/ MonitorStep /\ UNCHANGED << busVars, entryVars, workerVars >>

Spec == Init /\ [][Next]_vars

\* Processes are started and jobs run on: every call of a job is bounded by a
\* timeout.  The monitor's ticker fires forever in a running worker, so a row
\* that stays in a reapable status grows older than any cutoff.  Nothing is
\* assumed of clients, of the delivery of messages or of the entry.
Fairness ==
  /\ \A w \in Worker : WF_vars(Start(w) /\ UNCHANGED entryVars)
  /\ \A w \in Worker : WF_vars(JobStep(w) /\ UNCHANGED entryVars)
  /\ \A op \in Op :
       WF_vars(MonitorStep /\ status'[op] # status[op]
               /\ UNCHANGED << busVars, entryVars, workerVars >>)

FairSpec == Spec /\ Fairness

-----------------------------------------------------------------------------
(* Safety *)

Holds(w, op) == job[w].op = op
Unheld(op) == \A w \in Worker : ~Holds(w, op)
Home(op) == LocationOf[OpNode[op]]

\* No two workers ever hold the same operation: ClaimForExecution gives it to
\* one of them, also when both serve the node and bear the same instance id
\* (docs/architecture.md, "two workers can't run one op").
SingleExecution ==
  \A v, w \in Worker : v # w /\ job[v].op = job[w].op => job[v].op = NoOp

\* From the advance to APPLYING to the restart, the store says APPLYING: neither
\* the monitor nor a late result can fail an operation while its configuration
\* is being replaced, so no configuration is installed for a failed operation.
AppliesOnlyWhileApplying ==
  \A w \in Worker :
    job[w].at \in { "apply", "restart", "mark_checking" } => status[job[w].op] = "APPLYING"

\* The command, and so the configuration a worker installs, is the file the
\* entry has on record for the operation, even when two uploads race for it.
DeploysFileOfRecord ==
  /\ \A c \in commands : file[c.op] = c.file
  /\ \A l \in Location : \A u \in Upload : config[l] = u => file[UploadOp[u]] = u

\* A failed operation that no worker holds has left its configuration in place
\* only if the worker did report success: the report came too late or never.
\* (Where there was something to roll back to, and with calls that do not fail.)
FailedIsUndone ==
  \A op \in Op :
    status[op] = "FAILED" /\ Unheld(op) /\ config[Home(op)] = file[op]
      => [op |-> op, status |-> "SUCCEEDED"] \in results

\* The statuses in which nobody finishes an operation its worker has left.
Wedged == { "BACKUP_CREATED", "APPLYING", "ROLLING_BACK", "ROLLBACK_HEALTH_CHECKING" }

\* No operation is in one of them without a running worker that is at it: no job
\* ends there, on whichever path, and no late result brings back what has ended.
\* (Where no process dies and no call to MariaDB or NATS fails.)
WedgedIsHeld ==
  \A op \in Op : status[op] \in Wedged => \E w \in Worker : life[w] = "up" /\ Holds(w, op)

-----------------------------------------------------------------------------
(* Action properties *)

\* The store never moves an operation to a lower rank, whichever of the entry,
\* a worker or a monitor writes, and however results are delivered.
StatusNeverRegresses ==
  [][\A op \in Op : status[op] \in Status =>
       /\ status'[op] \in Status
       /\ statusRank[status[op]] <= statusRank[status'[op]]]_vars

\* Success is reported only of a service that has loaded the operation's file.
SuccessIsLive ==
  [][\A op \in Op :
       [op |-> op, status |-> "SUCCEEDED"] \in results' \ results
         => config[Home(op)] = file[op] /\ live[Home(op)] = file[op]]_vars

\* ROLLED_BACK is recorded only when the service runs on the configuration that
\* was there before the operation.
RolledBackIsRestored ==
  [][\A w \in Worker :
       job[w].op # NoOp /\ status[job[w].op] # "ROLLED_BACK"
                        /\ status'[job[w].op] = "ROLLED_BACK"
         => config[Where(w)] = job[w].backup /\ live[Where(w)] = job[w].backup]_vars

\* An operation whose file is on record, and that no hook will dispatch any more.
Undispatched(op) ==
  /\ status[op] = "PENDING" /\ file[op] # NoUpload
  /\ \A u \in Upload : UploadOp[u] = op => upload[u].at \notin { "stored", "located" }

\* A dispatch that was refused, or that the entry did not live to make, is never
\* made later: the client that was told of the failure creates another operation
\* and the first one does not run behind its back, whichever uploads come after.
RefusedStaysRefused ==
  [][\A op \in Op : Undispatched(op) => Undispatched(op)']_vars

-----------------------------------------------------------------------------
(* The inductive invariant *)

\* Statuses of an operation that some worker has claimed, or that the monitor
\* has failed.
Started == Status \ { "PENDING", "DISPATCHED" }

\* A job that is not idle knows its operation and its file.
JobShape ==
  \A w \in Worker : IF job[w].at = "idle" THEN job[w].op = NoOp
                                         ELSE job[w].op \in Op /\ job[w].file \in Upload

\* From the lookup of the node on, the hook knows the instance to address.
UploadShape ==
  \A u \in Upload : upload[u].at \in { "located", "dispatched" } => upload[u].instance \in Instance

\* Only started operations are held by workers or have results.
HeldAreStarted == \A w \in Worker : job[w].op \in Op => status[job[w].op] \in Started
ReportedAreStarted == \A r \in results : status[r.op] \in Started

\* Before it is applied, an operation has no result beyond TRANSFERRED.
ReportsKeepBehind ==
  \A w \in Worker :
    job[w].at \in { "download", "mark_backup", "backup", "mark_applying", "apply",
                    "restart", "mark_checking" }
      => \A r \in results : r.op = job[w].op => r.status \in { "RUNNING", "TRANSFERRED" }

IndInv ==
  /\ TypeOK
  /\ JobShape
  /\ UploadShape
  /\ HeldAreStarted
  /\ ReportedAreStarted
  /\ SingleExecution
  /\ ReportsKeepBehind
  /\ AppliesOnlyWhileApplying

\* The status the store has reached at least when a job stands at a position, or
\* once a status has been reported.
ReachedAt ==
  [ download |-> "RUNNING", mark_backup |-> "RUNNING", fail |-> "RUNNING",
    backup |-> "BACKUP_CREATED", mark_applying |-> "BACKUP_CREATED",
    apply |-> "APPLYING", restart |-> "APPLYING", mark_checking |-> "APPLYING",
    check |-> "HEALTH_CHECKING",
    rb_mark_failed |-> "BACKUP_CREATED", rb_mark |-> "BACKUP_CREATED",
    rb_restore |-> "ROLLING_BACK", rb_restart |-> "ROLLING_BACK",
    rb_mark_checking |-> "ROLLING_BACK", rb_check |-> "ROLLING_BACK",
    rb_mark_done |-> "ROLLING_BACK", rb_give_up |-> "ROLLING_BACK" ]
ReachedBy ==
  [ RUNNING |-> "RUNNING", TRANSFERRED |-> "RUNNING", FAILED |-> "RUNNING",
    SUCCEEDED |-> "HEALTH_CHECKING",
    ROLLING_BACK |-> "ROLLING_BACK", ROLLBACK_HEALTH_CHECKING |-> "ROLLING_BACK",
    ROLLED_BACK |-> "ROLLED_BACK", ROLLBACK_FAILED |-> "ROLLBACK_FAILED" ]

JobsReached ==
  \A w \in Worker : job[w].at # "idle" =>
    statusRank[ReachedAt[job[w].at]] <= statusRank[status[job[w].op]]
ReportsReached ==
  \A r \in results :
    /\ r.status \in DOMAIN ReachedBy
    /\ statusRank[ReachedBy[r.status]] <= statusRank[status[r.op]]

\* A held operation has neither reached nor been reported in a status a job ends with.
Final == { "SUCCEEDED", "ROLLED_BACK", "ROLLBACK_FAILED" }
HeldUnfinished ==
  \A w \in Worker : job[w].op \in Op =>
    /\ status[job[w].op] \notin Final
    /\ \A r \in results : r.op = job[w].op => r.status \notin Final

LifecycleInv ==
  /\ IndInv
  /\ JobsReached
  /\ ReportsReached
  /\ HeldUnfinished

\* Until its job has begun the rollback, an operation is in no status of one.
RollbackBegun == RollbackAt \ { "rb_mark_failed", "rb_mark" }
RollingBack == { "ROLLING_BACK", "ROLLBACK_HEALTH_CHECKING" }
RollbacksByJob ==
  \A w \in Worker :
    job[w].op \in Op /\ job[w].at \notin RollbackBegun => status[job[w].op] \notin RollingBack
JobsRun == \A w \in Worker : job[w].op \in Op => life[w] = "up"

HeldInv ==
  /\ LifecycleInv
  /\ RollbacksByJob
  /\ JobsRun
  /\ WedgedIsHeld

\* Everything that carries a file carries the file on record.
UploadsOnRecord ==
  \A u \in Upload : upload[u].at \in { "stored", "located", "dispatched" } => file[UploadOp[u]] = u
CommandsOnRecord == \A c \in commands : UploadOp[c.file] = c.op /\ file[c.op] = c.file
Recorded(c) == c \in Upload => file[UploadOp[c]] = c
JobsOnRecord == \A w \in Worker : Recorded(job[w].file) /\ Recorded(job[w].backup)
ConfigsOnRecord == \A l \in Location : Recorded(config[l])

Records ==
  /\ UploadsOnRecord
  /\ CommandsOnRecord
  /\ JobsOnRecord
  /\ ConfigsOnRecord

\* Where Exclusive holds: at most one run is up at a location, and the host is
\* as the statement tells at which the job of that run stands.
OneUp ==
  \A v, w \in Worker : life[v] = "up" /\ life[w] = "up" /\ Where(v) = Where(w) => v = w
JobsAlive ==
  \A w \in Worker : IF job[w].at = "idle" THEN job[w] = IdleJob ELSE life[w] = "up"
JobsOfNode ==
  \A w \in Worker : job[w].at # "idle" =>
    OpNode[job[w].op] = NodeOf[w] /\ UploadOp[job[w].file] = job[w].op
HostAs(w) ==
  LET at == job[w].at
      installed == config[Where(w)]
      loaded == live[Where(w)]
  IN
  /\ at \in { "download", "mark_backup", "backup" } => job[w].backup = NoConfig
  /\ at \in RollbackAt => job[w].backup # NoConfig
  /\ at \in { "mark_applying", "apply" } => installed = job[w].backup
  /\ at \in { "restart", "mark_checking", "check" } => installed = job[w].file
  /\ at \in { "mark_checking", "check" } => loaded = job[w].file
  /\ at \in { "rb_restart", "rb_mark_checking", "rb_check", "rb_mark_done" } =>
       installed = job[w].backup
  /\ at \in { "rb_mark_checking", "rb_check", "rb_mark_done" } => loaded = job[w].backup

HostInv ==
  /\ OneUp
  /\ JobsAlive
  /\ JobsOfNode
  /\ \A w \in Worker : HostAs(w)

\* Where no process dies, no call to MariaDB or NATS fails and something was
\* installed from the start: a configuration stands for an operation that has been
\* reported successful or has got as far as its rollback, or for the one under way.
SeenThrough(op) ==
  \/ [op |-> op, status |-> "SUCCEEDED"] \in results
  \/ status[op] \in Status /\ statusRank[status[op]] >= statusRank["ROLLING_BACK"]
UnderWay == { "restart", "mark_checking", "check", "rb_mark_failed", "rb_mark", "rb_restore",
              "rb_give_up" }
UndoneInv ==
  /\ \A op \in Op : file[op] \in Upload => UploadOp[file[op]] = op
  /\ \A l \in Location : config[l] # NoConfig
  /\ \A w \in Worker :
       /\ job[w].at \in { "mark_applying", "apply", "restart", "mark_checking", "check" } =>
            job[w].backup # NoConfig
       /\ job[w].backup \in Upload => SeenThrough(UploadOp[job[w].backup])
  /\ \A l \in Location : config[l] \in Upload =>
       \/ SeenThrough(UploadOp[config[l]])
       \/ \E w \in Worker : Where(w) = l /\ job[w].file = config[l] /\ job[w].at \in UnderWay

-----------------------------------------------------------------------------
(* Refinement *)

Lifecycle == INSTANCE OperationLifecycle

\* The statuses a client polls follow the documented state machine.
FollowsLifecycle == Lifecycle!Spec

\* What the job that installs upload u has kept of the configuration at l.
KeptFor(u, l) ==
  IF \E w \in Worker : job[w].file = u /\ Where(w) = l
  THEN LET keeper == CHOOSE w \in Worker : job[w].file = u /\ Where(w) = l IN job[keeper].backup
  ELSE NoConfig

Host(l) == INSTANCE AtomicConfig WITH
  Job    <- Upload,
  config <- config[l],
  stable <- config[l],
  kept   <- [u \in Upload |-> KeptFor(u, l)]

\* The jobs of all workers of a location, through refused statuses, rollbacks
\* and deaths of the process, are jobs of AtomicConfig, which FileDeployment
\* implements on the file system: none replaces a configuration it has not kept.
HostsDeployAtomically ==
  /\ \A l \in Location : Host(l)!Init
  /\ [][\A l \in Location : Host(l)!Next \/ UNCHANGED Host(l)!vars]_vars

-----------------------------------------------------------------------------
(* Liveness *)

Settled(op) == status[op] \in Terminal /\ Unheld(op)

\* A dispatched operation ends in a terminal status and stays there, when no
\* worker dies and no call to MariaDB or NATS fails.
DispatchedSettles == \A op \in Op : status[op] = "DISPATCHED" ~> []Settled(op)

\* Whatever fails, an operation settles or stays in one of the four statuses
\* the monitor skips: it is never left in DISPATCHED, RUNNING, TRANSFERRED or
\* HEALTH_CHECKING.
DispatchedSettlesOrWedges ==
  \A op \in Op : status[op] = "DISPATCHED" ~>
    [](Unheld(op) /\ status[op] \in Terminal \cup Wedged)

-----------------------------------------------------------------------------
(* What the documents say and the code does not do *)

\* docs/project.md, "Stuck operations are failed automatically": an operation
\* that was dispatched ends in a terminal status, whatever becomes of its worker.
StuckOperationsAreFailed ==
  \A op \in Op : status[op] = "DISPATCHED" ~> status[op] \in Terminal
=============================================================================

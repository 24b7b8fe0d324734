------------------------------ MODULE WorkerServer ------------------------------
(***************************************************************************)
(* The worker service.  A member of Worker is one run of the worker        *)
(* process: a restart is another member with the same node id, so two     *)
(* members of a node are an old process and its successor, overlapping or  *)
(* not.  A worker serves one command at a time (one NATS subscription);    *)
(* its job is the position of handleCommand and of the functions it calls. *)
(* A location is a SERVICES_ROOT: one configuration file of one service,   *)
(* and the container that loads the file when it is restarted.             *)
(***************************************************************************)
EXTENDS Messaging

CONSTANTS
  Worker,        \* runs of the worker process
  NodeOf,        \* NodeOf[w]: its NODE_ID
  InstanceOf,    \* InstanceOf[w]: its instance id (NODE_INCARNATION_ID or random)
  Location,      \* the SERVICES_ROOTs
  LocationOf,    \* LocationOf[n]: the SERVICES_ROOT mounted by the workers of n
  OldConfig,     \* a configuration installed before this system ran
  NoConfig,      \* no configuration file, no backup
  InitialConfig, \* what a location may hold at first: OldConfig, NoConfig or either
  NoOp,          \* the operation of an idle worker
  Mortal,        \* the runs that may end (bounds the number of crashes)
  Exclusive      \* at most one run is up at a location at any time

ASSUME WorkerAssumption ==
  /\ NodeOf \in [Worker -> Node]
  /\ InstanceOf \in [Worker -> Instance]
  /\ LocationOf \in [Node -> Location]
  /\ NoConfig \notin Upload \cup {OldConfig}
  /\ OldConfig \notin Upload
  /\ InitialConfig \subseteq {OldConfig, NoConfig}
  /\ NoOp \notin Op
  /\ Mortal \subseteq Worker
  /\ Exclusive \in BOOLEAN

VARIABLES
  life,          \* life[w]: not yet started, running, or dead
  job,           \* job[w]: what the worker does next, for which command
  config,        \* config[l]: the content of the configuration file
  live           \* live[l]: the content the service's container has loaded

workerVars == << life, job, config, live >>

Config == Upload \cup {OldConfig, NoConfig}

\* The statements of handleCommand, executeUpdate and rollbackOperation at
\* which a job can stand.
ExecuteAt == { "download", "mark_backup", "backup", "mark_applying", "apply",
               "restart", "mark_checking", "check" }
RollbackAt == { "rb_mark_failed", "rb_mark", "rb_restore", "rb_restart",
                "rb_mark_checking", "rb_check", "rb_mark_done", "rb_give_up" }
JobAt == {"idle"} \cup ExecuteAt \cup {"fail"} \cup RollbackAt

Job == [at : JobAt, op : Op \cup {NoOp}, file : Upload \cup {NoUpload}, backup : Config]
IdleJob == [at |-> "idle", op |-> NoOp, file |-> NoUpload, backup |-> NoConfig]

WorkerTypeOK ==
  /\ life \in [Worker -> { "unborn", "up", "dead" }]
  /\ job \in [Worker -> Job]
  /\ config \in [Location -> Config]
  /\ live \in [Location -> Config]

WorkerInit ==
  /\ life = [w \in Worker |-> "unborn"]
  /\ job = [w \in Worker |-> IdleJob]
  /\ config \in [Location -> InitialConfig]
  /\ live = config

Where(w) == LocationOf[NodeOf[w]]
At(w, at) == job[w].at = at
Goto(w, at) == job' = [job EXCEPT ![w].at = at]
Return(w) == job' = [job EXCEPT ![w] = IdleJob]
UnchangedHost == UNCHANGED << life, config, live >>   \* the job moves, nothing else here
UnchangedShared == UNCHANGED << storeVars, busVars >>

\* Mutant: every error is handled by handleExecutionFailure.
MutantFailed(w) == Goto(w, "fail")

\* Where handleCommand goes when executeUpdate returns an error: to
\* rollbackOperation with a backup path, to handleExecutionFailure without.
Failed(w) == Goto(w, IF job[w].backup # NoConfig THEN "rb_mark_failed" ELSE "fail")

\* The last statement of the failure paths: persist a status and, if that is
\* reported to have worked, publish it.
MarkAndReturn(w, st) ==
  /\ \E ok \in BOOLEAN :
       /\ AdvanceThenGet(job[w].op, st, ok)
       /\ IF ok THEN PublishResult(job[w].op, st) ELSE UNCHANGED results
  /\ Return(w)
  /\ UNCHANGED << file, commands >>
  /\ UnchangedHost

-----------------------------------------------------------------------------
(* The process *)

\* A run of the process begins.  Under Exclusive its supervisor waits for the
\* previous run to end, and no other node's workers mount its location.
Start(w) ==
  /\ life[w] = "unborn"
  /\ Exclusive => \A v \in Worker : Where(v) = Where(w) => life[v] # "up"
  /\ life' = [life EXCEPT ![w] = "up"]
  /\ UNCHANGED << job, config, live >>
  /\ UnchangedShared

\* A crash, or SIGTERM: Run returns without waiting for the command it serves.
Crash(w) ==
  /\ w \in Mortal /\ life[w] = "up"
  /\ life' = [life EXCEPT ![w] = "dead"]
  /\ Return(w)
  /\ UNCHANGED << config, live >>
  /\ UnchangedShared

-----------------------------------------------------------------------------
(* handleCommand *)

\* A command for the node reaches an idle worker, which ignores one addressed to
\* another instance and claims the operation.  The job is abandoned when the
\* claim took effect but the Get after it failed, or the report of RUNNING did,
\* sent or not.
HandleCommand(w, cmd) ==
  /\ life[w] = "up" /\ At(w, "idle")
  /\ cmd \in commands
  /\ OpNode[cmd.op] = NodeOf[w]
  /\ cmd.instance = InstanceOf[w]
  /\ ClaimForExecution(cmd.op)
  /\ \/ /\ PublishResult(cmd.op, "RUNNING")
        /\ job' = [job EXCEPT ![w] =
             [at |-> "download", op |-> cmd.op, file |-> cmd.file, backup |-> NoConfig]]
     \/ CallsMayFail /\ PublishResult(cmd.op, "RUNNING") /\ UNCHANGED job
     \/ CallsMayFail /\ UNCHANGED << results, job >>
  /\ UNCHANGED << file, commands >>
  /\ UnchangedHost

\* Download the file and report TRANSFERRED.  A failed report abandons the job,
\* and may all the same have been sent.
Download(w) ==
  /\ At(w, "download")
  /\ \/ PublishResult(job[w].op, "TRANSFERRED") /\ Goto(w, "mark_backup")
     \/ CallsMayFail /\ PublishResult(job[w].op, "TRANSFERRED") /\ Return(w)
     \/ UNCHANGED results /\ Goto(w, "fail")
  /\ UNCHANGED << storeVars, commands >>
  /\ UnchangedHost

\* failOperation and handleExecutionFailure.
FailOperation(w) == At(w, "fail") /\ MarkAndReturn(w, "FAILED")

-----------------------------------------------------------------------------
(* executeUpdate *)

\* Advance to BACKUP_CREATED, unless the service is unknown.
MarkBackup(w) ==
  /\ At(w, "mark_backup")
  /\ \/ \E ok \in BOOLEAN :
          /\ AdvanceThenGet(job[w].op, "BACKUP_CREATED", ok)
          /\ Goto(w, IF ok THEN "backup" ELSE "fail")
     \/ UNCHANGED status /\ Goto(w, "fail")
  /\ UNCHANGED << file, busVars >>
  /\ UnchangedHost

\* Mutant: the error of Deployer.Backup is ignored.
MutantBackup(w) ==
  /\ At(w, "backup")
  /\ \/ job' = [job EXCEPT ![w].at = "mark_applying", ![w].backup = config[Where(w)]]
     \/ Goto(w, "mark_applying")
  /\ UnchangedShared
  /\ UnchangedHost

\* Deployer.Backup: nothing to keep when there is no configuration yet.
Backup(w) ==
  /\ At(w, "backup")
  /\ \/ job' = [job EXCEPT ![w].at = "mark_applying", ![w].backup = config[Where(w)]]
     \/ Goto(w, "fail")
  /\ UnchangedShared
  /\ UnchangedHost

\* Advance to APPLYING; a refusal is an error with the backup at hand.
MarkApplying(w) ==
  /\ At(w, "mark_applying")
  /\ \E ok \in BOOLEAN :
       /\ AdvanceThenGet(job[w].op, "APPLYING", ok)
       /\ IF ok THEN Goto(w, "apply") ELSE Failed(w)
  /\ UNCHANGED << file, busVars >>
  /\ UnchangedHost

\* Deployer.Apply replaces the configuration by a rename, its last step: an
\* error leaves the old one.
Apply(w) ==
  /\ At(w, "apply")
  /\ \/ config' = [config EXCEPT ![Where(w)] = job[w].file] /\ Goto(w, "restart")
     \/ UNCHANGED config /\ Failed(w)
  /\ UNCHANGED << life, live >>
  /\ UnchangedShared

\* Mutant: the error of docker restart is ignored.
MutantRestart(w) ==
  /\ At(w, "restart")
  /\ \/ live' = [live EXCEPT ![Where(w)] = config[Where(w)]]
     \/ UNCHANGED live
  /\ Goto(w, "mark_checking")
  /\ UNCHANGED << life, config >>
  /\ UnchangedShared

\* docker restart; one that fails may have restarted the container or not.
Restart(w) ==
  /\ At(w, "restart")
  /\ \/ live' = [live EXCEPT ![Where(w)] = config[Where(w)]] /\ Goto(w, "mark_checking")
     \/ live' = [live EXCEPT ![Where(w)] = config[Where(w)]] /\ Failed(w)
     \/ UNCHANGED live /\ Failed(w)
  /\ UNCHANGED << life, config >>
  /\ UnchangedShared

MarkChecking(w) ==
  /\ At(w, "mark_checking")
  /\ \E ok \in BOOLEAN :
       /\ AdvanceThenGet(job[w].op, "HEALTH_CHECKING", ok)
       /\ IF ok THEN Goto(w, "check") ELSE Failed(w)
  /\ UNCHANGED << file, busVars >>
  /\ UnchangedHost

\* WaitUntilHealthy, and the report of SUCCEEDED, which only the entry's
\* handler of results will write to the store.
HealthCheck(w) ==
  /\ At(w, "check")
  /\ \/ PublishResult(job[w].op, "SUCCEEDED") /\ Return(w)
     \/ UNCHANGED results /\ Failed(w)
  /\ UNCHANGED << storeVars, commands >>
  /\ UnchangedHost

-----------------------------------------------------------------------------
(* rollbackOperation *)

\* The outcome of the advance to FAILED is ignored.
RollbackMarkFailed(w) ==
  /\ At(w, "rb_mark_failed")
  /\ \E ok \in BOOLEAN : AdvanceThenGet(job[w].op, "FAILED", ok)
  /\ PublishResult(job[w].op, "FAILED")
  /\ Goto(w, "rb_mark")
  /\ UNCHANGED << file, commands >>
  /\ UnchangedHost

\* Without ROLLING_BACK in the store the rollback does not start.
RollbackMark(w) ==
  /\ At(w, "rb_mark")
  /\ \E ok \in BOOLEAN :
       /\ AdvanceThenGet(job[w].op, "ROLLING_BACK", ok)
       /\ IF ok THEN PublishResult(job[w].op, "ROLLING_BACK") /\ Goto(w, "rb_restore")
                ELSE UNCHANGED results /\ Return(w)
  /\ UNCHANGED << file, commands >>
  /\ UnchangedHost

\* Mutant: the error of Deployer.Rollback is ignored.
MutantRestore(w) ==
  /\ At(w, "rb_restore")
  /\ \/ config' = [config EXCEPT ![Where(w)] = job[w].backup]
     \/ UNCHANGED config
  /\ Goto(w, "rb_restart")
  /\ UNCHANGED << life, live >>
  /\ UnchangedShared

\* Deployer.Rollback: the backup replaces the configuration, or nothing does.
Restore(w) ==
  /\ At(w, "rb_restore")
  /\ \/ config' = [config EXCEPT ![Where(w)] = job[w].backup] /\ Goto(w, "rb_restart")
     \/ UNCHANGED config /\ Goto(w, "rb_give_up")
  /\ UNCHANGED << life, live >>
  /\ UnchangedShared

RollbackRestart(w) ==
  /\ At(w, "rb_restart")
  /\ \/ live' = [live EXCEPT ![Where(w)] = config[Where(w)]] /\ Goto(w, "rb_mark_checking")
     \/ live' = [live EXCEPT ![Where(w)] = config[Where(w)]] /\ Goto(w, "rb_give_up")
     \/ UNCHANGED live /\ Goto(w, "rb_give_up")
  /\ UNCHANGED << life, config >>
  /\ UnchangedShared

\* The outcome of the advance is ignored.
RollbackMarkChecking(w) ==
  /\ At(w, "rb_mark_checking")
  /\ \E ok \in BOOLEAN : AdvanceThenGet(job[w].op, "ROLLBACK_HEALTH_CHECKING", ok)
  /\ PublishResult(job[w].op, "ROLLBACK_HEALTH_CHECKING")
  /\ Goto(w, "rb_check")
  /\ UNCHANGED << file, commands >>
  /\ UnchangedHost

RollbackHealthCheck(w) ==
  /\ At(w, "rb_check")
  /\ \E healthy \in BOOLEAN : Goto(w, IF healthy THEN "rb_mark_done" ELSE "rb_give_up")
  /\ UnchangedShared
  /\ UnchangedHost

\* Mutant: a ROLLED_BACK that was not confirmed is followed by markRollbackFailed.
MutantRollbackDone(w) ==
  /\ At(w, "rb_mark_done")
  /\ \E ok \in BOOLEAN :
       /\ AdvanceThenGet(job[w].op, "ROLLED_BACK", ok)
       /\ IF ok THEN Return(w) ELSE Goto(w, "rb_give_up")
  /\ UNCHANGED << file, busVars >>
  /\ UnchangedHost

\* Advance to ROLLED_BACK and publish it.
RollbackDone(w) == At(w, "rb_mark_done") /\ MarkAndReturn(w, "ROLLED_BACK")

\* markRollbackFailed.
RollbackFailed(w) == At(w, "rb_give_up") /\ MarkAndReturn(w, "ROLLBACK_FAILED")

\* One step of the job a worker holds.
JobStep(w) ==
  \/ Download(w) \/ FailOperation(w)
  \/ MarkBackup(w) \/ Backup(w) \/ MarkApplying(w) \/ Apply(w) \/ Restart(w)
  \/ MarkChecking(w) \/ HealthCheck(w)
  \/ RollbackMarkFailed(w) \/ RollbackMark(w) \/ Restore(w) \/ RollbackRestart(w)
  \/ RollbackMarkChecking(w) \/ RollbackHealthCheck(w)
  \/ RollbackDone(w) \/ RollbackFailed(w)
=============================================================================

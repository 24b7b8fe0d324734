------------------------- MODULE UpdateFlowHost_proofs -------------------------
(***************************************************************************)
(* Proofs about the host under Exclusive: what is reported of the          *)
(* service's configuration is true, the jobs of a location are jobs of     *)
(* AtomicConfig, and a failed operation leaves nothing behind.  Without    *)
(* Exclusive the first two are false.                                      *)
(***************************************************************************)
EXTENDS UpdateFlowLifecycle_proofs

\* The types of what a job works on.
LEMMA HostTypes ==
  ASSUME Shapes, NEW w \in Worker
  PROVE  /\ job \in [Worker -> Job] /\ job[w] \in Job
         /\ Where(w) \in Location
         /\ config \in [Location -> Config] /\ live \in [Location -> Config]
  BY WorkerAssumption DEF Shapes, TypeOK, WorkerTypeOK, Where

\* No worker is up at first.
LEMMA HostInvInit == Init => HostInv
<1> SUFFICES ASSUME Init PROVE HostInv
  OBVIOUS
<1>1. \A w \in Worker : life[w] = "unborn" /\ job[w] = IdleJob /\ job[w].at = "idle"
  BY DEF Init, WorkerInit, IdleJob
<1>2. OneUp
  BY <1>1 DEF OneUp
<1>3. JobsAlive /\ JobsOfNode
  BY <1>1 DEF JobsAlive, JobsOfNode
<1>4. \A w \in Worker : HostAs(w)
  BY <1>1 DEF HostAs, RollbackAt
<1> QED
  BY <1>2, <1>3, <1>4 DEF HostInv

\* The statements leave the host as the next statement presumes: one case each.
LEMMA JobStepHost ==
  ASSUME Shapes, NEW w \in Worker, HostAs(w), JobStep(w)
  PROVE  HostAs(w)'
<1> USE HostTypes DEF At, Goto, Return, Failed, UnchangedHost, UnchangedShared, JobAt, ExecuteAt,
        RollbackAt, Job, IdleJob, HostAs, Where
<1>1. CASE Download(w)
  BY <1>1 DEF Download
<1>2. CASE FailOperation(w)
  BY <1>2 DEF FailOperation, MarkAndReturn
<1>3. CASE MarkBackup(w)
  BY <1>3 DEF MarkBackup
<1>4. CASE Backup(w)
  BY <1>4 DEF Backup
<1>5. CASE MarkApplying(w)
  BY <1>5 DEF MarkApplying
<1>6. CASE Apply(w)
  BY <1>6 DEF Apply
<1>7. CASE Restart(w)
  BY <1>7 DEF Restart
<1>8. CASE MarkChecking(w)
  BY <1>8 DEF MarkChecking
<1>9. CASE HealthCheck(w)
  BY <1>9 DEF HealthCheck
<1>10. CASE RollbackMarkFailed(w)
  BY <1>10 DEF RollbackMarkFailed
<1>11. CASE RollbackMark(w)
  BY <1>11 DEF RollbackMark
<1>12. CASE Restore(w)
  BY <1>12 DEF Restore
<1>13. CASE RollbackRestart(w)
  BY <1>13 DEF RollbackRestart
<1>14. CASE RollbackMarkChecking(w)
  BY <1>14 DEF RollbackMarkChecking
<1>15. CASE RollbackHealthCheck(w)
  BY <1>15 DEF RollbackHealthCheck
<1>16. CASE RollbackDone(w)
  BY <1>16 DEF RollbackDone, MarkAndReturn
<1>17. CASE RollbackFailed(w)
  BY <1>17 DEF RollbackFailed, MarkAndReturn
<1> QED
  BY <1>1, <1>2, <1>3, <1>4, <1>5, <1>6, <1>7, <1>8, <1>9, <1>10, <1>11, <1>12, <1>13, <1>14,
     <1>15, <1>16, <1>17 DEF JobStep

\* A job leaves all other locations, and the other jobs of its own, alone.
LEMMA JobLeavesOthers ==
  ASSUME Shapes, HostInv, NEW w \in Worker, JobEffect(w)
  PROVE  /\ life' = life /\ life[w] = "up"
         /\ \A x \in Worker \ {w} : job'[x] = job[x]
         /\ \A l \in Location \ {Where(w)} : config'[l] = config[l] /\ live'[l] = live[l]
         /\ \A x \in Worker \ {w} : Where(x) = Where(w) => job[x] = IdleJob
<1>1. life' = life /\ life[w] = "up"
  BY DEF JobEffect, HostInv, JobsAlive
<1>2. \A x \in Worker \ {w} : job'[x] = job[x]
  BY JobOperation
<1>3. \A l \in Location \ {Where(w)} : config'[l] = config[l] /\ live'[l] = live[l]
  BY HostTypes DEF JobEffect
<1>4. \A x \in Worker \ {w} : Where(x) = Where(w) => job[x] = IdleJob
  BY <1>1 DEF HostInv, OneUp, JobsAlive
<1> QED
  BY <1>1, <1>2, <1>3, <1>4

\* What an idle job says of the host: nothing.
LEMMA IdleSaysNothing ==
  ASSUME NEW w \in Worker, job[w].at = "idle"
  PROVE  HostAs(w)
  BY DEF HostAs, RollbackAt

\* A job keeps its node and its upload as long as it goes on.
LEMMA JobKeepsHostInv ==
  ASSUME Shapes, HostInv, NEW w \in Worker, JobStep(w)
  PROVE  HostInv'
<1>0. job \in [Worker -> Job]
  BY HostTypes
<1>1. JobEffect(w)
  BY <1>0, JobStepEffect
<1>2. /\ life' = life /\ life[w] = "up"
      /\ \A x \in Worker \ {w} : job'[x] = job[x]
      /\ \A l \in Location \ {Where(w)} : config'[l] = config[l] /\ live'[l] = live[l]
      /\ \A x \in Worker \ {w} : Where(x) = Where(w) => job[x] = IdleJob
  BY <1>1, JobLeavesOthers
<1>3. OneUp'
  BY <1>2 DEF HostInv, OneUp, Where
<1>4. (job'[w].at = "idle" /\ job'[w] = IdleJob) \/ (job'[w].at # "idle" /\ job'[w].op = job[w].op
                                                       /\ job'[w].file = job[w].file)
  BY <1>0, <1>1 DEF JobEffect, Return, Goto, IdleJob, Job
<1>5. JobsAlive' /\ JobsOfNode'
  BY <1>1, <1>2, <1>4 DEF HostInv, JobsAlive, JobsOfNode, JobEffect
<1>6. ASSUME NEW x \in Worker PROVE HostAs(x)'
  <2>1. CASE x = w
    BY <2>1, JobStepHost DEF HostInv
  <2>2. CASE x # w /\ Where(x) = Where(w)
    BY <1>2, <2>2 DEF HostAs, RollbackAt, IdleJob
  <2>3. CASE x # w /\ Where(x) # Where(w)
    <3>1. Where(x) \in Location /\ HostAs(x) /\ job'[x] = job[x]
      BY <1>2, <2>3, HostTypes DEF HostInv
    <3>2. config'[Where(x)] = config[Where(x)] /\ live'[Where(x)] = live[Where(x)]
      BY <1>2, <2>3, <3>1
    <3> QED
      BY <3>1, <3>2 DEF HostAs, Where
  <2> QED
    BY <2>1, <2>2, <2>3
<1> QED
  BY <1>3, <1>5, <1>6 DEF HostInv

\* A command is for the worker's node and carries an upload for its operation.
LEMMA CommandKeepsHostInv ==
  ASSUME Shapes, Records, HostInv, NEW w \in Worker, NEW cmd \in commands, HandleCommand(w, cmd)
  PROVE  HostInv'
<1>0. job \in [Worker -> Job] /\ UNCHANGED << life, config, live >> /\ life[w] = "up"
  BY HostTypes DEF HandleCommand, UnchangedHost
<1>1. OneUp'
  BY <1>0 DEF HostInv, OneUp, Where
<1>2. CASE UNCHANGED job
  BY <1>0, <1>1, <1>2 DEF HostInv, JobsAlive, JobsOfNode, HostAs, Where
<1>3. CASE job' = [job EXCEPT ![w] =
             [at |-> "download", op |-> cmd.op, file |-> cmd.file, backup |-> NoConfig]]
  <2>1. OpNode[cmd.op] = NodeOf[w] /\ UploadOp[cmd.file] = cmd.op
    BY DEF HandleCommand, Records, CommandsOnRecord
  <2>2. /\ job'[w] = [at |-> "download", op |-> cmd.op, file |-> cmd.file, backup |-> NoConfig]
        /\ \A x \in Worker \ {w} : job'[x] = job[x]
    BY <1>0, <1>3
  <2>3. JobsAlive' /\ JobsOfNode'
    BY <1>0, <2>1, <2>2 DEF HostInv, JobsAlive, JobsOfNode
  <2>4. \A x \in Worker : HostAs(x)'
    BY <1>0, <2>2 DEF HostInv, HostAs, Where, RollbackAt
  <2> QED
    BY <1>1, <2>3, <2>4 DEF HostInv
<1> QED
  BY <1>2, <1>3 DEF HandleCommand

\* Exclusive lets a run start only where none is up.
LEMMA ProcessKeepsHostInv ==
  ASSUME Exclusive, Shapes, HostInv, NEW w \in Worker, Start(w) \/ Crash(w)
  PROVE  HostInv'
<1>0. job \in [Worker -> Job] /\ life \in [Worker -> { "unborn", "up", "dead" }]
      /\ UNCHANGED << config, live >>
  BY DEF Shapes, TypeOK, WorkerTypeOK, Start, Crash
<1>1. CASE Start(w)
  <2>1. OneUp'
    BY <1>0, <1>1 DEF HostInv, OneUp, Start, Where
  <2>2. JobsAlive' /\ JobsOfNode'
    BY <1>0, <1>1 DEF HostInv, JobsAlive, JobsOfNode, Start
  <2>3. \A x \in Worker : HostAs(x)'
    BY <1>0, <1>1 DEF HostInv, HostAs, Start, Where
  <2> QED
    BY <2>1, <2>2, <2>3 DEF HostInv
<1>2. CASE Crash(w)
  <2>1. /\ job'[w] = IdleJob /\ IdleJob.at = "idle"
        /\ \A x \in Worker \ {w} : job'[x] = job[x] /\ life'[x] = life[x]
        /\ life'[w] = "dead"
    BY <1>0, <1>2 DEF Crash, Return, IdleJob
  <2>2. OneUp'
    BY <2>1 DEF HostInv, OneUp, Where
  <2>3. JobsAlive' /\ JobsOfNode'
    BY <2>1 DEF HostInv, JobsAlive, JobsOfNode
  <2>4. \A x \in Worker : HostAs(x)'
    BY <1>0, <2>1 DEF HostInv, HostAs, Where, RollbackAt
  <2> QED
    BY <2>2, <2>3, <2>4 DEF HostInv
<1> QED
  BY <1>1, <1>2

\* HostInv is inductive, given the types and what is on record.
LEMMA HostInvStep ==
  ASSUME Exclusive
  PROVE  Shapes /\ Records /\ HostInv /\ [Next]_vars => HostInv'
<1> SUFFICES ASSUME Shapes, Records, HostInv, [Next]_vars PROVE HostInv'
  OBVIOUS
<1>1. CASE UNCHANGED workerVars
  BY <1>1 DEF workerVars, HostInv, OneUp, JobsAlive, JobsOfNode, HostAs, Where
<1>2. ASSUME NEW w \in Worker, WorkerStep(w) PROVE HostInv'
  BY <1>2, JobKeepsHostInv, CommandKeepsHostInv, ProcessKeepsHostInv DEF WorkerStep
<1> QED
  BY <1>1, <1>2 DEF Next, vars

\* All invariants together.
AllInv == LifecycleInv /\ Records /\ HostInv

\* They hold of every reachable state.
LEMMA AllInvHolds ==
  ASSUME Exclusive
  PROVE  Spec => []AllInv
<1>1. Init => AllInv
  BY LifecycleInvInit, RecordsInit, HostInvInit DEF AllInv
<1>2. AllInv => Shapes
  BY DEF AllInv, LifecycleInv, IndInv, Shapes
<1>3. AllInv /\ [Next]_vars => AllInv'
  BY <1>2, LifecycleInvStep, RecordsStep, HostInvStep DEF AllInv
<1> QED
  BY <1>1, <1>3, PTL DEF Spec

-----------------------------------------------------------------------------
(* What is reported of the host *)

\* SUCCEEDED is reported after a health check, and by no other statement.
LEMMA SuccessIsReported ==
  ASSUME Shapes, NEW w \in Worker, JobStep(w), NEW r \in results' \ results, r.status = "SUCCEEDED"
  PROVE  At(w, "check") /\ r.op = job[w].op /\ UNCHANGED file
<1> USE DEF PublishResult, UnchangedShared, busVars, storeVars
<1>1. CASE Download(w)
  BY <1>1 DEF Download
<1>2. CASE FailOperation(w)
  BY <1>2 DEF FailOperation, MarkAndReturn
<1>3. CASE HealthCheck(w)
  BY <1>3 DEF HealthCheck
<1>4. CASE RollbackMarkFailed(w)
  BY <1>4 DEF RollbackMarkFailed
<1>5. CASE RollbackMark(w)
  BY <1>5 DEF RollbackMark
<1>6. CASE RollbackMarkChecking(w)
  BY <1>6 DEF RollbackMarkChecking
<1>7. CASE RollbackDone(w) \/ RollbackFailed(w)
  BY <1>7 DEF RollbackDone, RollbackFailed, MarkAndReturn
<1>8. CASE \/ MarkBackup(w) \/ Backup(w) \/ MarkApplying(w) \/ Apply(w) \/ Restart(w)
           \/ MarkChecking(w) \/ Restore(w) \/ RollbackRestart(w) \/ RollbackHealthCheck(w)
  BY <1>8 DEF MarkBackup, Backup, MarkApplying, Apply, Restart, MarkChecking, Restore,
              RollbackRestart, RollbackHealthCheck
<1> QED
  BY <1>1, <1>2, <1>3, <1>4, <1>5, <1>6, <1>7, <1>8 DEF JobStep

\* Success is reported only of a service that has loaded the operation's file.
THEOREM SuccessReportsLive ==
  ASSUME Exclusive
  PROVE  Spec => SuccessIsLive
<1>1. AllInv /\ [Next]_vars =>
        [\A op \in Op :
           [op |-> op, status |-> "SUCCEEDED"] \in results' \ results
             => config[Home(op)] = file[op] /\ live[Home(op)] = file[op]]_vars
  <2> SUFFICES ASSUME AllInv, [Next]_vars, NEW op \in Op,
                      [op |-> op, status |-> "SUCCEEDED"] \in results' \ results
               PROVE  config[Home(op)] = file[op] /\ live[Home(op)] = file[op]
    OBVIOUS
  <2>0. Shapes
    BY DEF AllInv, LifecycleInv, IndInv, Shapes
  <2>1. PICK w \in Worker : JobStep(w)
    <3>1. CASE EntryStep
      BY <3>1, EntryStepEffect DEF EntryEffect
    <3>2. ASSUME NEW w \in Worker, WorkerStep(w) PROVE JobStep(w)
      BY <3>2 DEF WorkerStep, Start, Crash, HandleCommand, PublishResult, UnchangedShared, busVars
    <3> QED
      BY <3>1, <3>2 DEF Next, vars, busVars
  <2>2. At(w, "check") /\ op = job[w].op
    BY <2>0, <2>1, SuccessIsReported
  <2>3. HostAs(w) /\ OpNode[op] = NodeOf[w] /\ UploadOp[job[w].file] = op
    BY <2>2 DEF AllInv, HostInv, JobsOfNode, At
  <2>4. config[Where(w)] = job[w].file /\ live[Where(w)] = job[w].file
    BY <2>2, <2>3 DEF HostAs, At
  <2>5. job[w].file \in Upload /\ Recorded(job[w].file)
    BY <2>0, <2>2 DEF Shapes, JobShape, At, AllInv, Records, JobsOnRecord
  <2> QED
    BY <2>3, <2>4, <2>5 DEF Recorded, Home, Where
<1> QED
  BY <1>1, AllInvHolds, PTL DEF Spec, SuccessIsLive

\* ROLLED_BACK is written after the health check of a rollback, and by no other
\* statement of a worker.
LEMMA RolledBackIsWritten ==
  ASSUME Shapes, NEW w \in Worker, JobStep(w), NEW op \in Op,
         status[op] # "ROLLED_BACK", status'[op] = "ROLLED_BACK"
  PROVE  At(w, "rb_mark_done") /\ op = job[w].op
<1>0. status \in [Op -> Status \cup {Absent}]
  BY DEF Shapes, TypeOK, StoreTypeOK
<1>1. ASSUME NEW st, NEW ok, AdvanceThenGet(job[w].op, st, ok) PROVE st = "ROLLED_BACK" /\ op = job[w].op
  BY <1>0, <1>1 DEF AdvanceThenGet, AdvanceStatus
<1> USE DEF UnchangedShared, storeVars
<1>2. CASE MarkBackup(w) \/ MarkApplying(w) \/ MarkChecking(w)
  BY <1>1, <1>2 DEF MarkBackup, MarkApplying, MarkChecking
<1>3. CASE FailOperation(w) \/ RollbackFailed(w)
  BY <1>1, <1>3 DEF FailOperation, RollbackFailed, MarkAndReturn
<1>4. CASE RollbackMarkFailed(w) \/ RollbackMark(w) \/ RollbackMarkChecking(w)
  BY <1>1, <1>4 DEF RollbackMarkFailed, RollbackMark, RollbackMarkChecking
<1>5. CASE RollbackDone(w)
  BY <1>1, <1>5 DEF RollbackDone, MarkAndReturn
<1>6. CASE \/ Download(w) \/ Backup(w) \/ Apply(w) \/ Restart(w) \/ HealthCheck(w)
           \/ Restore(w) \/ RollbackRestart(w) \/ RollbackHealthCheck(w)
  BY <1>6 DEF Download, Backup, Apply, Restart, HealthCheck, Restore, RollbackRestart,
              RollbackHealthCheck
<1> QED
  BY <1>2, <1>3, <1>4, <1>5, <1>6 DEF JobStep

\* ROLLED_BACK is recorded, for an operation some worker holds, only when the
\* service runs on what was there before: a report of it cannot come earlier.
THEOREM RolledBackRestored ==
  ASSUME Exclusive
  PROVE  Spec => RolledBackIsRestored
<1>1. AllInv /\ [Next]_vars =>
        [\A w \in Worker :
           job[w].op # NoOp /\ status[job[w].op] # "ROLLED_BACK"
                            /\ status'[job[w].op] = "ROLLED_BACK"
             => config[Where(w)] = job[w].backup /\ live[Where(w)] = job[w].backup]_vars
  <2> SUFFICES ASSUME AllInv, [Next]_vars, NEW w \in Worker, job[w].op # NoOp,
                      status[job[w].op] # "ROLLED_BACK", status'[job[w].op] = "ROLLED_BACK"
               PROVE  config[Where(w)] = job[w].backup /\ live[Where(w)] = job[w].backup
    OBVIOUS
  <2>0. /\ Shapes /\ status \in [Op -> Status \cup {Absent}] /\ job[w].op \in Op
        /\ results \subseteq Result
    BY DEF AllInv, LifecycleInv, IndInv, Shapes, TypeOK, StoreTypeOK, BusTypeOK, WorkerTypeOK, Job
  <2>1. PICK x \in Worker : JobStep(x)
    <3>1. CASE EntryStep
      <4>1. \A r \in results : r.op = job[w].op => r.status # "ROLLED_BACK"
        BY <2>0 DEF AllInv, LifecycleInv, HeldUnfinished, Final
      <4>2. ASSUME NEW o \in Op, CreateRow(o) PROVE FALSE
        BY <2>0, <4>2 DEF CreateRow
      <4>3. ASSUME NEW r \in results, AdvanceStatus(r.op, r.status) PROVE FALSE
        BY <2>0, <4>1, <4>3 DEF AdvanceStatus
      <4>4. ASSUME NEW o \in Op, AdvanceStatus(o, "DISPATCHED") PROVE FALSE
        BY <2>0, <4>4 DEF AdvanceStatus
      <4> QED
        BY <3>1, <4>2, <4>3, <4>4, EntryStepEffect DEF EntryEffect
    <3>2. ASSUME NEW x \in Worker, WorkerStep(x) PROVE JobStep(x)
      BY <2>0, <3>2 DEF WorkerStep, Start, Crash, HandleCommand, ClaimForExecution, UnchangedShared,
                        storeVars
    <3>3. CASE MonitorStep
      BY <2>0, <3>3 DEF MonitorStep, Reap
    <3> QED
      BY <3>1, <3>2, <3>3 DEF Next, vars, storeVars
  <2>2. At(x, "rb_mark_done") /\ job[w].op = job[x].op
    BY <2>0, <2>1, RolledBackIsWritten
  <2>3. x = w
    BY <2>2 DEF AllInv, LifecycleInv, IndInv, SingleExecution
  <2> QED
    BY <2>2, <2>3 DEF AllInv, HostInv, HostAs, At
<1> QED
  BY <1>1, AllInvHolds, PTL DEF Spec, RolledBackIsRestored

-----------------------------------------------------------------------------
(* The jobs of a location as jobs of AtomicConfig *)

\* What is kept for an upload, read off the one run that is up, if any.
LEMMA KeptForUp ==
  ASSUME Shapes, HostInv, NEW w \in Worker, life[w] = "up", NEW u \in Upload
  PROVE  KeptFor(u, Where(w)) = IF job[w].file = u THEN job[w].backup ELSE NoConfig
<1>1. \A x \in Worker : Where(x) = Where(w) /\ x # w => job[x].file # u
  BY StoreAssumption DEF HostInv, OneUp, JobsAlive, IdleJob
<1> QED
  BY <1>1 DEF KeptFor

\* Nothing is kept where no run is up.
LEMMA KeptForDown ==
  ASSUME HostInv, NEW l \in Location, \A x \in Worker : Where(x) = l => life[x] # "up", NEW u \in Upload
  PROVE  KeptFor(u, l) = NoConfig
<1>1. \A x \in Worker : Where(x) = l => job[x].file # u
  BY StoreAssumption DEF HostInv, JobsAlive, IdleJob
<1> QED
  BY <1>1 DEF KeptFor

\* Nothing changes at a location whose workers take no step.
LEMMA KeptForSame ==
  ASSUME Shapes, HostInv, HostInv', NEW l \in Location, NEW u \in Upload,
         \A x \in Worker : Where(x) = l => job'[x] = job[x] /\ life'[x] = life[x]
  PROVE  KeptFor(u, l)' = KeptFor(u, l)
<1>1. \A x \in Worker : (job'[x].file = u /\ Where(x) = l) <=> (job[x].file = u /\ Where(x) = l)
  OBVIOUS
<1>2. CASE \E x \in Worker : Where(x) = l /\ life[x] = "up"
  <2>1. PICK x \in Worker : Where(x) = l /\ life[x] = "up"
    BY <1>2
  <2>2. \A y \in Worker : Where(y) = l /\ y # x => job[y].file # u /\ job'[y].file # u
    BY <2>1, StoreAssumption DEF HostInv, OneUp, JobsAlive, IdleJob
  <2> QED
    BY <1>1, <2>1, <2>2 DEF KeptFor, Where
<1>3. CASE \A x \in Worker : Where(x) = l => life[x] # "up"
  <2>1. \A x \in Worker : Where(x) = l => job[x].file # u /\ job'[x].file # u
    BY <1>3, StoreAssumption DEF HostInv, JobsAlive, IdleJob
  <2> QED
    BY <2>1 DEF KeptFor, Where
<1> QED
  BY <1>2, <1>3

\* The same after a step.
LEMMA KeptForUpAfter ==
  ASSUME HostInv', NEW w \in Worker, life'[w] = "up", NEW u \in Upload
  PROVE  KeptFor(u, Where(w))' = IF job'[w].file = u THEN job'[w].backup ELSE NoConfig
<1>1. \A x \in Worker : Where(x) = Where(w) /\ x # w => job'[x].file # u
  BY StoreAssumption DEF HostInv, OneUp, JobsAlive, IdleJob, Where
<1> QED
  BY <1>1 DEF KeptFor, Where

\* What a step of a job does to the configuration and to what the job keeps.
HostEffect(w) ==
  LET u == job[w].file
      l == Where(w)
  IN
  \/ UNCHANGED config /\ job'[w].file = u /\ job'[w].backup = job[w].backup
  \/ UNCHANGED config /\ job'[w] = IdleJob
  \/ /\ UNCHANGED config /\ job[w].backup = NoConfig
     /\ job'[w].file = u /\ job'[w].backup = config[l]
  \/ /\ config' = [config EXCEPT ![l] = u] /\ job[w].backup = config[l]
     /\ job'[w].file = u /\ job'[w].backup = job[w].backup
  \/ /\ config' = [config EXCEPT ![l] = job[w].backup] /\ job[w].backup # NoConfig
     /\ job'[w].file = u /\ job'[w].backup = job[w].backup

\* Every statement has one of these effects.
LEMMA JobStepOnHost ==
  ASSUME Shapes, NEW w \in Worker, HostAs(w), JobStep(w)
  PROVE  HostEffect(w)
<1> USE HostTypes DEF HostEffect, At, Goto, Return, Failed, UnchangedHost, UnchangedShared, JobAt, ExecuteAt,
        RollbackAt, Job, HostAs, MarkAndReturn
<1>1. CASE Download(w) \/ FailOperation(w) \/ MarkBackup(w) \/ MarkApplying(w)
  BY <1>1 DEF Download, FailOperation, MarkBackup, MarkApplying
<1>2. CASE Backup(w)
  BY <1>2 DEF Backup
<1>3. CASE Apply(w)
  BY <1>3 DEF Apply
<1>4. CASE Restart(w) \/ MarkChecking(w) \/ HealthCheck(w)
  BY <1>4 DEF Restart, MarkChecking, HealthCheck
<1>5. CASE RollbackMarkFailed(w) \/ RollbackMark(w)
  BY <1>5 DEF RollbackMarkFailed, RollbackMark
<1>6. CASE Restore(w)
  BY <1>6 DEF Restore
<1>7. CASE RollbackRestart(w) \/ RollbackMarkChecking(w) \/ RollbackHealthCheck(w)
  BY <1>7 DEF RollbackRestart, RollbackMarkChecking, RollbackHealthCheck
<1>8. CASE RollbackDone(w) \/ RollbackFailed(w)
  BY <1>8 DEF RollbackDone, RollbackFailed
<1> QED
  BY <1>1, <1>2, <1>3, <1>4, <1>5, <1>6, <1>7, <1>8 DEF JobStep

\* At its own location, each effect is a step of AtomicConfig or changes nothing.
LEMMA JobIsAtomic ==
  ASSUME Shapes, HostInv, HostInv', NEW w \in Worker, JobStep(w)
  PROVE  Host(Where(w))!Next \/ UNCHANGED Host(Where(w))!vars
<1> DEFINE l == Where(w)
           u == job[w].file
           k == [v \in Upload |-> KeptFor(v, l)]
<1>0. /\ job \in [Worker -> Job] /\ config \in [Location -> Config] /\ l \in Location
      /\ job[w].at # "idle" /\ u \in Upload /\ life[w] = "up" /\ life' = life
  BY HostTypes, JobStepEffect DEF JobEffect, Shapes, JobShape, HostInv, JobsAlive
<1>1. \A v \in Upload : KeptFor(v, l) = IF u = v THEN job[w].backup ELSE NoConfig
  BY <1>0, KeptForUp
<1>2. \A v \in Upload : KeptFor(v, l)' = IF job'[w].file = v THEN job'[w].backup ELSE NoConfig
  BY <1>0, KeptForUpAfter
<1>3. HostEffect(w)
  BY JobStepOnHost DEF HostInv
<1>4. CASE UNCHANGED config /\ job'[w].file = u /\ job'[w].backup = job[w].backup
  <2>1. k' = k
    BY <1>1, <1>2, <1>4 DEF Where
  <2> QED
    BY <1>4, <2>1 DEF Host!vars, Where
<1>5. CASE UNCHANGED config /\ job'[w] = IdleJob
  <2>1. job'[w].file = NoUpload /\ NoUpload \notin Upload
    BY <1>5, StoreAssumption DEF IdleJob
  <2>2. \A v \in Upload : KeptFor(v, l)' = NoConfig
    BY <1>2, <2>1 DEF Where
  <2>3. k' = [k EXCEPT ![u] = NoConfig]
    BY <1>1, <2>2 DEF Where
  <2> QED
    BY <1>0, <1>5, <2>3 DEF Host!Next, Host!Forget, Where
<1>6. CASE /\ UNCHANGED config /\ job[w].backup = NoConfig
           /\ job'[w].file = u /\ job'[w].backup = config[l]
  <2>1. k' = [k EXCEPT ![u] = config[l]]
    BY <1>1, <1>2, <1>6 DEF Where
  <2>2. CASE config[l] # NoConfig
    BY <1>0, <1>6, <2>1, <2>2 DEF Host!Next, Host!Keep, Where
  <2>3. CASE config[l] = NoConfig
    <3>1. k' = k
      BY <1>1, <1>2, <1>6, <2>3 DEF Where
    <3> QED
      BY <1>6, <3>1 DEF Host!vars, Where
  <2> QED
    BY <2>2, <2>3
<1>7. CASE /\ config' = [config EXCEPT ![l] = u] /\ job[w].backup = config[l]
           /\ job'[w].file = u /\ job'[w].backup = job[w].backup
  <2>1. k' = k /\ k[u] = config[l] /\ config'[l] = u
    BY <1>0, <1>1, <1>2, <1>7 DEF Where
  <2> QED
    BY <1>0, <2>1 DEF Host!Next, Host!Install, Host!Becomes, Where
<1>8. CASE /\ config' = [config EXCEPT ![l] = job[w].backup] /\ job[w].backup # NoConfig
           /\ job'[w].file = u /\ job'[w].backup = job[w].backup
  <2>1. k' = k /\ k[u] = job[w].backup /\ config'[l] = k[u]
    BY <1>0, <1>1, <1>2, <1>8 DEF Where
  <2> QED
    BY <1>0, <1>8, <2>1 DEF Host!Next, Host!Restore, Host!Becomes, Where
<1> QED
  BY <1>3, <1>4, <1>5, <1>6, <1>7, <1>8 DEF HostEffect

\* A command finds its worker without a job, and leaves it one that keeps nothing.
LEMMA CommandIsStutter ==
  ASSUME Shapes, HostInv, HostInv', NEW w \in Worker, NEW cmd \in commands, HandleCommand(w, cmd)
  PROVE  UNCHANGED Host(Where(w))!vars
<1> DEFINE l == Where(w)
<1>0. /\ job \in [Worker -> Job] /\ UNCHANGED << config, life >> /\ life[w] = "up" /\ job[w] = IdleJob
  BY HostTypes DEF HandleCommand, UnchangedHost, HostInv, JobsAlive, At
<1>1. \A v \in Upload : KeptFor(v, l) = NoConfig
  BY <1>0, KeptForUp, StoreAssumption DEF IdleJob
<1>2. job'[w].backup = NoConfig \/ job'[w] = IdleJob
  BY <1>0 DEF HandleCommand
<1>3. \A v \in Upload : KeptFor(v, l)' = NoConfig
  BY <1>0, <1>2, KeptForUpAfter DEF IdleJob, Where
<1> QED
  BY <1>0, <1>1, <1>3 DEF Host!vars, Where

\* The end of a run forgets what its job has kept.
LEMMA CrashForgets ==
  ASSUME Shapes, HostInv, HostInv', NEW w \in Worker, Crash(w)
  PROVE  Host(Where(w))!Next \/ UNCHANGED Host(Where(w))!vars
<1> DEFINE l == Where(w)
           u == job[w].file
           k == [v \in Upload |-> KeptFor(v, l)]
<1>0. /\ job \in [Worker -> Job] /\ UNCHANGED config /\ life[w] = "up" /\ life'[w] = "dead"
      /\ \A x \in Worker : Where(x) = l => life'[x] # "up"
      /\ l \in Location
  BY HostTypes DEF Shapes, TypeOK, WorkerTypeOK, Crash, HostInv, OneUp
<1>1. \A v \in Upload : KeptFor(v, l) = IF u = v THEN job[w].backup ELSE NoConfig
  BY <1>0, KeptForUp
<1>2. \A v \in Upload : KeptFor(v, l)' = NoConfig
  <2>1. \A x \in Worker : Where(x) = l => job'[x].file = NoUpload
    BY <1>0 DEF HostInv, JobsAlive, IdleJob, Where
  <2> QED
    BY <2>1, StoreAssumption DEF KeptFor, Where
<1>3. CASE u \in Upload
  <2>1. k' = [k EXCEPT ![u] = NoConfig]
    BY <1>1, <1>2, <1>3 DEF Where
  <2> QED
    BY <1>0, <1>3, <2>1 DEF Host!Next, Host!Forget, Where
<1>4. CASE u \notin Upload
  <2>1. k' = k
    BY <1>1, <1>2, <1>4 DEF Where
  <2> QED
    BY <1>0, <2>1 DEF Host!vars, Where
<1> QED
  BY <1>3, <1>4

\* Each step is, at each location, a step of AtomicConfig or changes nothing.
LEMMA StepIsAtomic ==
  ASSUME Exclusive, Shapes, HostInv, HostInv', [Next]_vars, NEW l \in Location
  PROVE  Host(l)!Next \/ UNCHANGED Host(l)!vars
<1>1. CASE UNCHANGED << config, job >>
  <2>1. \A u \in Upload : KeptFor(u, l)' = KeptFor(u, l)
    BY <1>1 DEF KeptFor, Where
  <2> QED
    BY <1>1, <2>1 DEF Host!vars
<1>2. ASSUME NEW w \in Worker, WorkerStep(w) PROVE Host(l)!Next \/ UNCHANGED Host(l)!vars
  <2>1. CASE Start(w)
    BY <1>1, <2>1 DEF Start
  <2>2. CASE l = Where(w)
    BY <1>2, <2>1, <2>2, JobIsAtomic, CommandIsStutter, CrashForgets DEF WorkerStep
  <2>3. CASE l # Where(w) /\ ~Start(w)
    <3>0. job \in [Worker -> Job] /\ life \in [Worker -> { "unborn", "up", "dead" }]
      BY DEF Shapes, TypeOK, WorkerTypeOK
    <3>1. config'[l] = config[l] /\ \A x \in Worker \ {w} : job'[x] = job[x] /\ life'[x] = life[x]
      <4>1. CASE JobStep(w)
        <5>1. JobEffect(w)
          BY <3>0, <4>1, JobStepEffect
        <5>2. \A x \in Worker : life'[x] = life[x]
          BY <5>1, JobLeavesOthers
        <5>3. config'[l] = config[l]
          BY <2>3, <5>1, JobLeavesOthers
        <5> QED
          BY <5>1, <5>2, <5>3, JobLeavesOthers
      <4>2. CASE Crash(w)
        BY <3>0, <4>2 DEF Crash, Return
      <4>3. ASSUME NEW cmd \in commands, HandleCommand(w, cmd)
            PROVE  UNCHANGED << config, life >> /\ \A x \in Worker \ {w} : job'[x] = job[x]
        BY <3>0, <4>3 DEF HandleCommand, UnchangedHost
      <4> QED
        BY <1>2, <2>3, <4>1, <4>2, <4>3 DEF WorkerStep
    <3>2. \A x \in Worker : Where(x) = l => job'[x] = job[x] /\ life'[x] = life[x]
      BY <2>3, <3>1
    <3>3. \A u \in Upload : KeptFor(u, l)' = KeptFor(u, l)
      BY <3>2, KeptForSame
    <3> QED
      BY <3>1, <3>3 DEF Host!vars
  <2> QED
    BY <2>1, <2>2, <2>3
<1> QED
  BY <1>1, <1>2 DEF Next, vars, workerVars

\* The jobs of all workers of a location, whatever is refused or dies, are jobs of
\* AtomicConfig: none replaces a configuration it has not kept.
THEOREM HostsImplementAtomic ==
  ASSUME Exclusive
  PROVE  Spec => HostsDeployAtomically
<1>1. Init => \A l \in Location : Host(l)!Init
  <2> SUFFICES ASSUME Init, NEW l \in Location PROVE Host(l)!Init
    OBVIOUS
  <2>1. \A u \in Upload : KeptFor(u, l) = NoConfig
    BY HostInvInit, KeptForDown DEF Init, WorkerInit
  <2> QED
    BY <2>1, WorkerAssumption DEF Host!Init, Init, WorkerInit
<1>2. AllInv /\ AllInv' /\ [Next]_vars =>
        [\A l \in Location : Host(l)!Next \/ UNCHANGED Host(l)!vars]_vars
  BY StepIsAtomic DEF AllInv, LifecycleInv, IndInv, Shapes
<1> QED
  BY <1>1, <1>2, AllInvHolds, PTL DEF Spec, HostsDeployAtomically

-----------------------------------------------------------------------------
(* What a failed operation leaves behind *)

\* Without failing calls a write is refused only when the row is already as far.
LEMMA RefusedIsSeenThrough ==
  ASSUME Shapes, ~CallsMayFail, NEW op \in Op, NEW next \in { "ROLLING_BACK", "ROLLBACK_FAILED" },
         NEW ok \in BOOLEAN, status[op] \in Status, AdvanceThenGet(op, next, ok),
         status'[op] \in Status
  PROVE  SeenThrough(op)'
<1>0. status \in [Op -> Status \cup {Absent}]
  BY DEF Shapes, TypeOK, StoreTypeOK
<1>1. statusRank[next] >= statusRank["ROLLING_BACK"]
  BY DEF statusRank
<1>2. CASE AdvanceStatus(op, next)
  BY <1>0, <1>1, <1>2 DEF AdvanceStatus, SeenThrough
<1>3. CASE ~CanAdvance(status[op], next) /\ UNCHANGED status
  <2>1. statusRank[status[op]] >= statusRank[next]
    BY <1>3, Ranked DEF CanAdvance, Status, statusRank
  <2> QED
    BY <1>1, <1>3, <2>1, Ranked DEF SeenThrough, Status, statusRank
<1> QED
  BY <1>2, <1>3 DEF AdvanceThenGet

\* What the statements of a job make of a configuration under way.
JobGoesOn(w, op) ==
  LET l == Where(w) IN
  /\ job'[w].at \in { "mark_applying", "apply", "restart", "mark_checking", "check" } =>
       job'[w].backup # NoConfig
  /\ \/ job'[w].backup \in { job[w].backup, NoConfig }
     \/ job[w].at = "backup" /\ job'[w].backup = config[l]
  /\ \/ UNCHANGED config
     \/ config' = [config EXCEPT ![l] = job[w].backup] /\ job[w].backup # NoConfig
     \/ /\ config' = [config EXCEPT ![l] = job[w].file]
        /\ job'[w].at = "restart" /\ job'[w].file = job[w].file
  /\ job[w].at \in UnderWay =>
       \/ job'[w].at \in UnderWay /\ job'[w].file = job[w].file
       \/ SeenThrough(op)'
       \/ config'[l] = job[w].backup

\* One case per statement.
LEMMA JobStepGoesOn ==
  ASSUME Shapes, Shapes', UndoneInv, ~CallsMayFail, NEW w \in Worker, HostAs(w), JobStep(w),
         NEW op \in Op, job[w].op = op, status[op] \in Status, status'[op] \in Status
  PROVE  JobGoesOn(w, op)
<1>1. /\ config[Where(w)] # NoConfig
      /\ job[w].at \in { "mark_applying", "apply", "restart", "mark_checking", "check" } =>
           job[w].backup # NoConfig
  BY HostTypes DEF UndoneInv
<1> USE HostTypes DEF JobGoesOn, UnderWay, At, Goto, Return, Failed, UnchangedHost, UnchangedShared,
        JobAt, ExecuteAt, RollbackAt, Job, IdleJob, MarkAndReturn
<1>2. CASE Download(w) \/ FailOperation(w) \/ MarkBackup(w)
  BY <1>2 DEF Download, FailOperation, MarkBackup
<1>3. CASE Backup(w)
  BY <1>1, <1>3 DEF Backup
<1>4. CASE MarkApplying(w)
  BY <1>1, <1>4 DEF MarkApplying
<1>5. CASE Apply(w)
  BY <1>1, <1>5 DEF Apply
<1>6. CASE Restart(w) \/ MarkChecking(w)
  BY <1>1, <1>6 DEF Restart, MarkChecking
<1>7. CASE HealthCheck(w)
  <2>1. PublishResult(op, "SUCCEEDED") => SeenThrough(op)'
    BY DEF PublishResult, SeenThrough
  <2> QED
    BY <1>1, <1>7, <2>1 DEF HealthCheck
<1>8. CASE RollbackMarkFailed(w)
  BY <1>8 DEF RollbackMarkFailed
<1>9. CASE RollbackMark(w)
  <2>1. SeenThrough(op)'
    BY <1>9, RefusedIsSeenThrough DEF RollbackMark
  <2> QED
    BY <1>9, <2>1 DEF RollbackMark
<1>10. CASE Restore(w)
  BY <1>10 DEF Restore, HostAs
<1>11. CASE RollbackRestart(w) \/ RollbackMarkChecking(w) \/ RollbackHealthCheck(w)
  BY <1>11 DEF RollbackRestart, RollbackMarkChecking, RollbackHealthCheck
<1>12. CASE RollbackDone(w)
  BY <1>12 DEF RollbackDone
<1>13. CASE RollbackFailed(w)
  <2>1. SeenThrough(op)'
    BY <1>13, RefusedIsSeenThrough DEF RollbackFailed
  <2> QED
    BY <1>13, <2>1 DEF RollbackFailed
<1> QED
  BY <1>2, <1>3, <1>4, <1>5, <1>6, <1>7, <1>8, <1>9, <1>10, <1>11, <1>12, <1>13 DEF JobStep

\* Results stay, and statuses do not fall in rank.
LEMMA StaysSeenThrough ==
  ASSUME Shapes, [Next]_vars, NEW op \in Op, SeenThrough(op), results \subseteq results'
  PROVE  SeenThrough(op)'
<1>1. CASE [op |-> op, status |-> "SUCCEEDED"] \in results
  BY <1>1 DEF SeenThrough
<1>2. CASE status[op] \in Status /\ statusRank[status[op]] >= statusRank["ROLLING_BACK"]
  <2>1. status'[op] \in Status /\ statusRank[status[op]] <= statusRank[status'[op]]
    BY <1>2, StepForward DEF Forward, Absent, Status, statusRank
  <2> QED
    BY <1>2, <2>1, Ranked DEF SeenThrough, Status, statusRank
<1> QED
  BY <1>1, <1>2 DEF SeenThrough

\* A file is recorded for the operation its upload names.
LEMMA FilesOwn ==
  ASSUME Shapes, UndoneInv, [Next]_vars
  PROVE  \A op \in Op : file'[op] \in Upload => UploadOp[file'[op]] = op
<1> USE DEF storeVars
<1>0. file \in [Op -> Upload \cup {NoUpload}] /\ \A op \in Op : file[op] \in Upload => UploadOp[file[op]] = op
  BY DEF Shapes, TypeOK, StoreTypeOK, UndoneInv
<1>1. CASE UNCHANGED file
  BY <1>0, <1>1
<1>2. CASE EntryStep
  <2>1. ASSUME NEW u \in Upload, UploadFinish(u)
        PROVE  \A op \in Op : file'[op] \in Upload => UploadOp[file'[op]] = op
    BY <1>0, <1>1, <2>1 DEF UploadFinish, SaveFile
  <2>2. (\E u \in Upload : UploadFinish(u)) \/ UNCHANGED file
    BY <1>2 DEF EntryStep, CreateUpdate, HandleResult, UploadCreate, LocateNode, MarkDispatched,
                PublishCommand, UploadAborted, NodeUnavailable, RegisterNode
  <2> QED
    BY <1>1, <2>1, <2>2
<1>3. ASSUME NEW w \in Worker, WorkerStep(w) PROVE UNCHANGED file
  BY <1>3, JobStepEffect
  DEF Shapes, TypeOK, WorkerTypeOK, WorkerStep, Start, Crash, HandleCommand, JobEffect, UnchangedShared
<1>4. CASE MonitorStep \/ UNCHANGED vars
  BY <1>1, <1>4 DEF MonitorStep, Reap, vars
<1> QED
  BY <1>1, <1>2, <1>3, <1>4 DEF Next

\* No configuration stands for a failed operation at first.
LEMMA UndoneInit ==
  ASSUME InitialConfig = {OldConfig}, Init
  PROVE  UndoneInv
<1>1. /\ \A op \in Op : file[op] \notin Upload
      /\ \A w \in Worker : job[w].backup \notin Upload /\ job[w].at = "idle"
      /\ \A l \in Location : config[l] = OldConfig
  BY StoreAssumption, WorkerAssumption DEF Init, StoreInit, WorkerInit, IdleJob
<1> QED
  BY <1>1, WorkerAssumption DEF UndoneInv

\* Steps of others than a job under way.
LEMMA OthersKeepUndone ==
  ASSUME Shapes, UndoneInv, [Next]_vars, UNCHANGED config, results \subseteq results',
         \A x \in Worker : job'[x] = job[x] \/ ( /\ job[x].at = "idle" /\ job'[x].at = "download"
                                                 /\ job'[x].backup = NoConfig )
  PROVE  UndoneInv'
<1>1. \A op \in Op : SeenThrough(op) => SeenThrough(op)'
  BY StaysSeenThrough
<1>2. \A u \in Upload : UploadOp[u] \in Op
  BY StoreAssumption
<1>3. \A w \in Worker :
       /\ job'[w].at \in { "mark_applying", "apply", "restart", "mark_checking", "check" } =>
            job'[w].backup # NoConfig
       /\ job'[w].backup \in Upload => SeenThrough(UploadOp[job[w].backup])' /\ job'[w].backup = job[w].backup
  BY <1>1, <1>2, WorkerAssumption DEF UndoneInv
<1>4. \A l \in Location : config[l] \in Upload =>
       \/ SeenThrough(UploadOp[config[l]])'
       \/ \E w \in Worker : Where(w) = l /\ job'[w].file = config[l] /\ job'[w].at \in UnderWay
  BY <1>1, <1>2 DEF UndoneInv, UnderWay
<1> QED
  BY <1>3, <1>4, FilesOwn DEF UndoneInv, Where, SeenThrough

\* A job under way is the one its location's configuration may stand for.
LEMMA JobKeepsUndone ==
  ASSUME AllInv, Shapes', UndoneInv, ~CallsMayFail, [Next]_vars, NEW w \in Worker, JobStep(w)
  PROVE  UndoneInv'
<1> DEFINE l == Where(w)
<1>0. /\ Shapes /\ job \in [Worker -> Job] /\ config \in [Location -> Config] /\ l \in Location
      /\ HostAs(w) /\ HostInv
  BY HostTypes DEF AllInv, LifecycleInv, IndInv, Shapes, HostInv
<1>1. PICK op \in Op : op = job[w].op
  BY <1>0, JobStepEffect, JobOperation
<1>2. /\ JobEffect(w) /\ results \subseteq results' /\ job[w].at # "idle"
      /\ job[w].file \in Upload /\ UploadOp[job[w].file] = op
      /\ \A x \in Worker \ {w} : job'[x] = job[x]
      /\ \A k \in Location \ {l} : config'[k] = config[k]
  <2>1. JobEffect(w)
    BY <1>0, JobStepEffect
  <2>2. /\ \A x \in Worker \ {w} : job'[x] = job[x]
        /\ \A k \in Location \ {l} : config'[k] = config[k]
    BY <1>0, <2>1, JobLeavesOthers
  <2> QED
    BY <1>0, <1>1, <2>1, <2>2 DEF JobEffect, PublishResult, Shapes, JobShape, HostInv, JobsOfNode
<1>3. /\ \A o \in Op : SeenThrough(o) => SeenThrough(o)'
      /\ \A u \in Upload : UploadOp[u] \in Op
  BY <1>0, <1>2, StaysSeenThrough, StoreAssumption
<1>4. status[op] \in Status /\ status'[op] \in Status
  <2>1. status[op] \in Started
    BY <1>1 DEF AllInv, LifecycleInv, IndInv, HeldAreStarted
  <2> QED
    BY <1>0, <2>1, StepForward DEF Started
<1>5. JobGoesOn(w, op)
  BY <1>0, <1>1, <1>4, JobStepGoesOn
<1>6. \A x \in Worker : Where(x) = l /\ job[x].at \in UnderWay => x = w
  BY <1>0, <1>2, JobLeavesOthers DEF UnderWay, IdleJob
<1>7. config[l] \in Upload => SeenThrough(UploadOp[config[l]])
                             \/ (job[w].file = config[l] /\ job[w].at \in UnderWay)
  BY <1>0, <1>6 DEF UndoneInv
<1>8. config'[l] # NoConfig /\ config' \in [Location -> Config]
  BY <1>0, <1>2, <1>5, WorkerAssumption DEF JobGoesOn, UndoneInv, Shapes, TypeOK, WorkerTypeOK
<1>9. ASSUME NEW u \in Upload, job'[w].backup = u PROVE SeenThrough(UploadOp[u])'
  <2>1. CASE job[w].backup = u
    BY <1>3, <2>1 DEF UndoneInv
  <2>2. CASE job[w].at = "backup" /\ config[l] = u
    BY <1>3, <1>7, <2>2 DEF UnderWay
  <2> QED
    BY <1>5, <1>9, <2>1, <2>2, WorkerAssumption DEF JobGoesOn
<1>10. ASSUME NEW u \in Upload, config'[l] = u
       PROVE  SeenThrough(UploadOp[u])' \/ (job'[w].file = u /\ job'[w].at \in UnderWay)
  <2>1. CASE u = job[w].backup
    BY <1>3, <2>1 DEF UndoneInv
  <2>2. CASE u = config[l] /\ u # job[w].backup
    <3>1. CASE SeenThrough(UploadOp[u])
      BY <1>3, <3>1
    <3>2. CASE job[w].file = u /\ job[w].at \in UnderWay
      BY <1>2, <1>5, <1>10, <2>2, <3>2 DEF JobGoesOn
    <3> QED
      BY <1>7, <2>2, <3>1, <3>2
  <2>3. CASE u = job[w].file /\ job'[w].at = "restart" /\ job'[w].file = job[w].file
    BY <2>3 DEF UnderWay
  <2> QED
    BY <1>0, <1>5, <1>10, <2>1, <2>2, <2>3 DEF JobGoesOn
<1>11. \A k \in Location : config'[k] # NoConfig
  BY <1>2, <1>8 DEF UndoneInv
<1>12. \A x \in Worker :
         /\ job'[x].at \in { "mark_applying", "apply", "restart", "mark_checking", "check" } =>
              job'[x].backup # NoConfig
         /\ \A u \in Upload : job'[x].backup = u => SeenThrough(UploadOp[u])'
  BY <1>2, <1>3, <1>5, <1>9 DEF UndoneInv, JobGoesOn
<1>13. \A k \in Location, u \in Upload : config'[k] = u =>
         \/ SeenThrough(UploadOp[u])'
         \/ \E x \in Worker : Where(x) = k /\ job'[x].file = u /\ job'[x].at \in UnderWay
  <2> SUFFICES ASSUME NEW k \in Location, NEW u \in Upload, config'[k] = u
               PROVE  \/ SeenThrough(UploadOp[u])'
                      \/ \E x \in Worker : Where(x) = k /\ job'[x].file = u /\ job'[x].at \in UnderWay
    OBVIOUS
  <2>1. CASE k = l
    BY <1>10, <2>1
  <2>2. CASE k # l
    <3>1. config[k] = u
      BY <1>2, <2>2
    <3>2. SeenThrough(UploadOp[u]) \/ \E x \in Worker : Where(x) = k /\ job[x].file = u /\ job[x].at \in UnderWay
      BY <3>1 DEF UndoneInv
    <3>3. CASE SeenThrough(UploadOp[u])
      BY <1>3, <3>3
    <3>4. ASSUME NEW x \in Worker, Where(x) = k, job[x].file = u, job[x].at \in UnderWay
          PROVE  job'[x].file = u /\ job'[x].at \in UnderWay
      BY <1>2, <2>2, <3>4
    <3> QED
      BY <3>2, <3>3, <3>4
  <2> QED
    BY <2>1, <2>2
<1>14. \A o \in Op : file'[o] \in Upload => UploadOp[file'[o]] = o
  BY <1>0, FilesOwn DEF UndoneInv
<1>15. \A k \in Location : config'[k] \in Upload =>
         \/ SeenThrough(UploadOp[config[k]])'
         \/ \E x \in Worker : Where(x) = k /\ job'[x].file = config'[k] /\ job'[x].at \in UnderWay
  BY <1>13 DEF SeenThrough
<1>16. \A x \in Worker :
         /\ job'[x].at \in { "mark_applying", "apply", "restart", "mark_checking", "check" } =>
              job'[x].backup # NoConfig
         /\ job'[x].backup \in Upload => SeenThrough(UploadOp[job[x].backup])'
  BY <1>12 DEF SeenThrough
<1> QED
  BY <1>11, <1>14, <1>15, <1>16 DEF UndoneInv, Where

\* UndoneInv is inductive where no run ends and no call fails.
LEMMA UndoneStep ==
  ASSUME ~CallsMayFail, Mortal = {}
  PROVE  AllInv /\ AllInv' /\ UndoneInv /\ [Next]_vars => UndoneInv'
<1> SUFFICES ASSUME AllInv, AllInv', UndoneInv, [Next]_vars PROVE UndoneInv'
  OBVIOUS
<1>0. Shapes /\ Shapes' /\ job \in [Worker -> Job]
  BY DEF AllInv, LifecycleInv, IndInv, Shapes, TypeOK, WorkerTypeOK
<1>1. CASE EntryStep /\ UNCHANGED workerVars
  BY <1>0, <1>1, EntryStepEffect, OthersKeepUndone DEF EntryEffect, workerVars
<1>2. ASSUME NEW w \in Worker, WorkerStep(w) PROVE UndoneInv'
  <2>1. CASE Start(w)
    BY <1>0, <2>1, OthersKeepUndone DEF Start, UnchangedShared, busVars
  <2>2. ASSUME NEW cmd \in commands, HandleCommand(w, cmd) PROVE UndoneInv'
    <3>1. UNCHANGED config /\ results \subseteq results'
      BY <2>2 DEF HandleCommand, UnchangedHost, PublishResult
    <3>2. \A x \in Worker : job'[x] = job[x] \/ ( /\ job[x].at = "idle" /\ job'[x].at = "download"
                                                  /\ job'[x].backup = NoConfig )
      BY <1>0, <2>2 DEF HandleCommand, At
    <3> QED
      BY <1>0, <3>1, <3>2, OthersKeepUndone
  <2> QED
    BY <1>0, <1>2, <2>1, <2>2, JobKeepsUndone DEF WorkerStep, Crash
<1>3. CASE MonitorStep /\ UNCHANGED << busVars, entryVars, workerVars >>
  BY <1>0, <1>3, OthersKeepUndone DEF busVars, workerVars
<1>4. CASE UNCHANGED vars
  BY <1>0, <1>4, OthersKeepUndone DEF vars, busVars, workerVars
<1> QED
  BY <1>1, <1>2, <1>3, <1>4 DEF Next

\* Where something was installed from the start, no worker dies and no call fails,
\* a failed operation that nobody holds has left its configuration in place only if
\* its worker did report success, too late or in vain.
THEOREM FailureIsUndone ==
  ASSUME Exclusive, ~CallsMayFail, Mortal = {}, InitialConfig = {OldConfig},
         NoUpload \notin { OldConfig, NoConfig }
  PROVE  Spec => []FailedIsUndone
<1>1. AllInv /\ UndoneInv => FailedIsUndone
  <2> SUFFICES ASSUME AllInv, UndoneInv, NEW op \in Op,
                      status[op] = "FAILED", Unheld(op), config[Home(op)] = file[op]
               PROVE  [op |-> op, status |-> "SUCCEEDED"] \in results
    BY DEF FailedIsUndone
  <2>0. Shapes
    BY DEF AllInv, LifecycleInv, IndInv, Shapes
  <2>1. Home(op) \in Location /\ config[Home(op)] \in Upload
    BY <2>0, MessagingAssumption, WorkerAssumption
    DEF Home, Shapes, TypeOK, StoreTypeOK, WorkerTypeOK, Config
  <2>2. UploadOp[config[Home(op)]] = op
    BY <2>1 DEF UndoneInv
  <2>3. ~ \E w \in Worker : job[w].file = config[Home(op)] /\ job[w].at \in UnderWay
    BY <2>2 DEF Unheld, Holds, AllInv, HostInv, JobsOfNode, UnderWay
  <2>4. SeenThrough(op)
    BY <2>1, <2>2, <2>3 DEF UndoneInv
  <2> QED
    BY <2>4 DEF SeenThrough, statusRank
<1>2. Init => UndoneInv
  BY UndoneInit
<1>3. AllInv /\ AllInv' /\ UndoneInv /\ [Next]_vars => UndoneInv'
  BY UndoneStep
<1> QED
  BY <1>1, <1>2, <1>3, AllInvHolds, PTL DEF Spec
=============================================================================

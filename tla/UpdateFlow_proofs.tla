--------------------------- MODULE UpdateFlow_proofs ---------------------------
(***************************************************************************)
(* Proofs about UpdateFlow, for any sets of operations, uploads, nodes,    *)
(* workers and locations and for either value of its switches.             *)
(*                                                                         *)
(* The steps of a job are first reduced to what they do to each variable   *)
(* (JobEffect); the invariants are then shown to survive that effect.      *)
(***************************************************************************)
EXTENDS UpdateFlow, TLAPS

\* The conditional UPDATE never takes a started operation back to PENDING or
\* DISPATCHED, or to a lower rank.
LEMMA AdvanceKeepsStarted ==
  ASSUME NEW cur \in Started, NEW next \in Status, CanAdvance(cur, next)
  PROVE  next \in Started /\ statusRank[cur] <= statusRank[next]
  BY DEF Started, Status, CanAdvance, statusRank

\* What AdvanceThenGet may do to the store, whatever it reports.
LEMMA AdvanceOutcome ==
  ASSUME NEW op, NEW next, NEW ok \in BOOLEAN, AdvanceThenGet(op, next, ok)
  PROVE  UNCHANGED status \/ AdvanceStatus(op, next)
  BY DEF AdvanceThenGet

-----------------------------------------------------------------------------
(* What a step of a job does, whichever it is *)

\* The positions before and while the configuration is replaced.
Replacing == { "apply", "restart", "mark_checking" }
Early == { "download", "mark_backup", "backup", "mark_applying" } \cup Replacing

JobEffect(w) ==
  /\ job[w].at # "idle"
  /\ UNCHANGED << file, commands, life >>
  /\ UNCHANGED status \/ \E st \in Status : AdvanceStatus(job[w].op, st)
  /\ UNCHANGED results \/ \E st \in Status : PublishResult(job[w].op, st)
  /\ \/ Return(w)
     \/ \E at \in JobAt \ {"idle"} : Goto(w, at)
     \/ job' = [job EXCEPT ![w].at = "mark_applying", ![w].backup = config[Where(w)]]
  /\ \/ UNCHANGED config
     \/ config' = [config EXCEPT ![Where(w)] = job[w].file]
     \/ config' = [config EXCEPT ![Where(w)] = job[w].backup]
  /\ UNCHANGED live \/ live' = [live EXCEPT ![Where(w)] = config[Where(w)]]
  /\ job'[w].at \in Early =>
       job[w].at \in Early /\ (UNCHANGED results \/ PublishResult(job[w].op, "TRANSFERRED"))
  /\ job'[w].at \in Replacing =>
       (job[w].at \in Replacing /\ UNCHANGED status) \/ AdvanceStatus(job[w].op, "APPLYING")

\* Every step of a job has the effect above: one case per step.
LEMMA JobStepEffect ==
  ASSUME job \in [Worker -> Job], NEW w \in Worker, JobStep(w)
  PROVE  JobEffect(w)
<1> USE DEF JobEffect, At, Goto, Return, Failed, UnchangedHost, UnchangedShared, storeVars, busVars,
        JobAt, ExecuteAt, RollbackAt, Early, Replacing, Job, IdleJob
<1>1. CASE Download(w)
  BY <1>1 DEF Download, Status
<1>2. CASE FailOperation(w)
  BY <1>2, AdvanceOutcome DEF FailOperation, MarkAndReturn, Status
<1>3. CASE MarkBackup(w)
  BY <1>3, AdvanceOutcome DEF MarkBackup, Status
<1>4. CASE Backup(w)
  BY <1>4 DEF Backup
<1>5. CASE MarkApplying(w)
  <2>1. PICK ok \in BOOLEAN : /\ AdvanceThenGet(job[w].op, "APPLYING", ok)
                              /\ IF ok THEN Goto(w, "apply") ELSE Failed(w)
    BY <1>5 DEF MarkApplying
  <2>2. UNCHANGED status \/ AdvanceStatus(job[w].op, "APPLYING")
    BY <2>1, AdvanceOutcome
  <2>3. ok => AdvanceStatus(job[w].op, "APPLYING")
    BY <2>1 DEF AdvanceThenGet
  <2> QED
    BY <1>5, <2>1, <2>2, <2>3 DEF MarkApplying, Status
<1>6. CASE Apply(w)
  BY <1>6 DEF Apply
<1>7. CASE Restart(w)
  BY <1>7 DEF Restart
<1>8. CASE MarkChecking(w)
  BY <1>8, AdvanceOutcome DEF MarkChecking, Status
<1>9. CASE HealthCheck(w)
  <2>1. CASE PublishResult(job[w].op, "SUCCEEDED") /\ Return(w)
    BY <1>9, <2>1 DEF HealthCheck, Status
  <2>2. CASE UNCHANGED results /\ Failed(w)
    BY <1>9, <2>2 DEF HealthCheck
  <2> QED
    BY <1>9, <2>1, <2>2 DEF HealthCheck
<1>10. CASE RollbackMarkFailed(w)
  BY <1>10, AdvanceOutcome DEF RollbackMarkFailed, Status
<1>11. CASE RollbackMark(w)
  BY <1>11, AdvanceOutcome DEF RollbackMark, Status
<1>12. CASE Restore(w)
  BY <1>12 DEF Restore
<1>13. CASE RollbackRestart(w)
  BY <1>13 DEF RollbackRestart
<1>14. CASE RollbackMarkChecking(w)
  BY <1>14, AdvanceOutcome DEF RollbackMarkChecking, Status
<1>15. CASE RollbackHealthCheck(w)
  <2>1. Goto(w, "rb_mark_done") \/ Goto(w, "rb_give_up")
    BY <1>15 DEF RollbackHealthCheck
  <2>2. job[w].at = "rb_check" /\ UnchangedShared /\ UnchangedHost
    BY <1>15 DEF RollbackHealthCheck
  <2>3. CASE Goto(w, "rb_mark_done")
    BY <2>2, <2>3
  <2>4. CASE Goto(w, "rb_give_up")
    BY <2>2, <2>4
  <2> QED
    BY <2>1, <2>3, <2>4
<1>16. CASE RollbackDone(w)
  BY <1>16, AdvanceOutcome DEF RollbackDone, MarkAndReturn, Status
<1>17. CASE RollbackFailed(w)
  BY <1>17, AdvanceOutcome DEF RollbackFailed, MarkAndReturn, Status
<1> QED
  BY <1>1, <1>2, <1>3, <1>4, <1>5, <1>6, <1>7, <1>8, <1>9, <1>10, <1>11, <1>12, <1>13, <1>14,
     <1>15, <1>16, <1>17 DEF JobStep

-----------------------------------------------------------------------------
(* Types and shapes *)

\* The types, with what a job and an upload carry at each of their positions.
Shapes == TypeOK /\ JobShape /\ UploadShape

\* The empty system has its types.
LEMMA ShapesInit == Init => Shapes
<1> SUFFICES ASSUME Init PROVE Shapes
  OBVIOUS
<1>1. StoreTypeOK /\ BusTypeOK
  BY DEF Init, StoreInit, BusInit, StoreTypeOK, BusTypeOK
<1>2. EntryTypeOK /\ UploadShape
  BY DEF Init, EntryInit, EntryTypeOK, UploadShape, UploadAt
<1>3. WorkerTypeOK /\ JobShape
  BY WorkerAssumption
  DEF Init, WorkerInit, WorkerTypeOK, JobShape, IdleJob, Job, JobAt, Config
<1> QED
  BY <1>1, <1>2, <1>3 DEF Shapes, TypeOK

\* A step of a job keeps the types.
LEMMA JobShapes ==
  ASSUME Shapes, NEW w \in Worker, JobEffect(w), UNCHANGED entryVars
  PROVE  Shapes'
<1>1. job[w].op \in Op /\ job[w].file \in Upload /\ job[w].backup \in Config
  BY DEF Shapes, TypeOK, WorkerTypeOK, JobShape, JobEffect, Job
<1>2. status' \in [Op -> Status \cup {Absent}]
  BY DEF Shapes, TypeOK, StoreTypeOK, JobEffect, AdvanceStatus
<1>3. results' \subseteq Result
  BY <1>1 DEF Shapes, TypeOK, BusTypeOK, JobEffect, PublishResult, Result
<1>4. job' \in [Worker -> Job] /\ JobShape'
  <2>1. job \in [Worker -> Job] /\ JobShape /\ config \in [Location -> Config] /\ Where(w) \in Location
    BY WorkerAssumption DEF Shapes, TypeOK, WorkerTypeOK, Where
  <2>2. CASE Return(w)
    BY <2>1, <2>2 DEF Return, IdleJob, Job, JobAt, Config, JobShape
  <2>3. CASE \E at \in JobAt \ {"idle"} : Goto(w, at)
    BY <1>1, <2>1, <2>3 DEF Goto, Job, JobShape
  <2>4. CASE job' = [job EXCEPT ![w].at = "mark_applying", ![w].backup = config[Where(w)]]
    BY <1>1, <2>1, <2>4 DEF Job, JobShape, JobAt, ExecuteAt
  <2> QED
    BY <2>2, <2>3, <2>4 DEF JobEffect
<1>5. config' \in [Location -> Config] /\ live' \in [Location -> Config]
  BY <1>1, WorkerAssumption DEF Shapes, TypeOK, WorkerTypeOK, JobEffect, Where, Config
<1>6. (EntryTypeOK /\ UploadShape)'
  BY DEF Shapes, TypeOK, EntryTypeOK, UploadShape, entryVars
<1> QED
  BY <1>2, <1>3, <1>4, <1>5, <1>6
  DEF Shapes, TypeOK, StoreTypeOK, BusTypeOK, WorkerTypeOK, JobEffect

\* What a step of the entry does to the variables it shares with the workers.
EntryEffect ==
  /\ UNCHANGED results
  /\ \/ UNCHANGED status
     \/ \E op \in Op : CreateRow(op)
     \/ \E r \in results : AdvanceStatus(r.op, r.status)
     \/ \E op \in Op : AdvanceStatus(op, "DISPATCHED")

\* Every step of the entry has the effect above.
LEMMA EntryStepEffect ==
  ASSUME EntryStep
  PROVE  EntryEffect
<1> USE StoreAssumption DEF EntryEffect, busVars, storeVars
<1>1. ASSUME NEW op \in Op, CreateUpdate(op) PROVE EntryEffect
  BY <1>1 DEF CreateUpdate
<1>2. ASSUME NEW r \in results, HandleResult(r) PROVE EntryEffect
  BY <1>2 DEF HandleResult
<1>3. ASSUME NEW u \in Upload, MarkDispatched(u) PROVE EntryEffect
  BY <1>3, AdvanceOutcome DEF MarkDispatched
<1>4. ASSUME NEW u \in Upload,
             UploadCreate(u) \/ UploadFinish(u) \/ LocateNode(u) \/ PublishCommand(u) \/ UploadAborted(u)
      PROVE  EntryEffect
  BY <1>4 DEF UploadCreate, UploadFinish, LocateNode, PublishCommand, UploadAborted
<1>5. ASSUME NEW n \in Node, NEW i, NodeUnavailable(n) \/ RegisterNode(n, i) PROVE EntryEffect
  BY <1>5 DEF NodeUnavailable, RegisterNode
<1> QED
  BY <1>1, <1>2, <1>3, <1>4, <1>5, WorkerAssumption DEF EntryStep

\* A step of the entry keeps the types.
LEMMA EntryShapes ==
  ASSUME Shapes, EntryStep, UNCHANGED workerVars
  PROVE  Shapes'
<1>1. status' \in [Op -> Status \cup {Absent}]
  <2> USE DEF Shapes, TypeOK, StoreTypeOK, BusTypeOK, Result
  <2>1. ASSUME NEW op \in Op, CreateRow(op) PROVE status' \in [Op -> Status \cup {Absent}]
    BY <2>1 DEF CreateRow, Status
  <2>2. ASSUME NEW r \in results, AdvanceStatus(r.op, r.status)
        PROVE  status' \in [Op -> Status \cup {Absent}]
    BY <2>2 DEF AdvanceStatus
  <2>3. ASSUME NEW op \in Op, AdvanceStatus(op, "DISPATCHED")
        PROVE  status' \in [Op -> Status \cup {Absent}]
    BY <2>3 DEF AdvanceStatus, Status
  <2> QED
    BY EntryStepEffect, <2>1, <2>2, <2>3 DEF EntryEffect
<1>2. WorkerTypeOK' /\ JobShape' /\ results' \subseteq Result
  BY EntryStepEffect DEF Shapes, TypeOK, WorkerTypeOK, JobShape, workerVars, EntryEffect, BusTypeOK
<1>3. (file \in [Op -> Upload \cup {NoUpload}])' /\ (commands \subseteq Command)' /\ EntryTypeOK' /\ UploadShape'
  <2> DEFINE Good == (file \in [Op -> Upload \cup {NoUpload}])' /\ (commands \subseteq Command)'
                     /\ EntryTypeOK' /\ UploadShape'
  <2>0. /\ file \in [Op -> Upload \cup {NoUpload}] /\ commands \subseteq Command
        /\ EntryTypeOK /\ UploadShape
    BY DEF Shapes, TypeOK, StoreTypeOK, BusTypeOK
  <2> USE <2>0 DEF EntryTypeOK, UploadShape, UploadAt, UploadOver, UploadGoto, storeVars, busVars, entryVars
  <2>1. ASSUME NEW op \in Op, CreateUpdate(op) PROVE Good
    BY <2>1 DEF CreateUpdate
  <2>2. ASSUME NEW r \in results, HandleResult(r) PROVE Good
    BY <2>2 DEF HandleResult
  <2>3. ASSUME NEW u \in Upload, UploadCreate(u) PROVE Good
    BY <2>3 DEF UploadCreate
  <2>4. ASSUME NEW u \in Upload, UploadFinish(u) PROVE Good
    BY <2>4, StoreAssumption DEF UploadFinish, SaveFile
  <2>5. ASSUME NEW u \in Upload, LocateNode(u) PROVE Good
    <3>1. registry[OpNode[UploadOp[u]]] \in Instance \cup {NotOnline}
      BY StoreAssumption, MessagingAssumption
    <3>2. CASE UploadOver(u)
      BY <2>5, <3>2 DEF LocateNode
    <3>3. CASE /\ Online(OpNode[UploadOp[u]])
               /\ upload' = [upload EXCEPT ![u] =
                    [at |-> "located", instance |-> registry[OpNode[UploadOp[u]]]]]
      BY <2>5, <3>1, <3>3 DEF LocateNode, Online
    <3> QED
      BY <2>5, <3>2, <3>3 DEF LocateNode
  <2>6. ASSUME NEW u \in Upload, MarkDispatched(u) PROVE Good
    BY <2>6 DEF MarkDispatched
  <2>7. ASSUME NEW u \in Upload, PublishCommand(u) PROVE Good
    <3>1. UploadOp[u] \in Op /\ upload[u].instance \in Instance
      BY <2>7, StoreAssumption DEF PublishCommand
    <3>2. (commands \subseteq Command)'
      BY <2>7, <3>1 DEF PublishCommand, Command
    <3> QED
      BY <2>7, <3>2 DEF PublishCommand
  <2>8. ASSUME NEW u \in Upload, UploadAborted(u) PROVE Good
    BY <2>8 DEF UploadAborted
  <2>9. ASSUME NEW n \in Node, NodeUnavailable(n) PROVE Good
    BY <2>9 DEF NodeUnavailable
  <2>10. ASSUME NEW w \in Worker, RegisterNode(NodeOf[w], InstanceOf[w]) PROVE Good
    BY <2>10, WorkerAssumption DEF RegisterNode
  <2> QED
    BY <2>1, <2>2, <2>3, <2>4, <2>5, <2>6, <2>7, <2>8, <2>9, <2>10 DEF EntryStep
<1> QED
  BY <1>1, <1>2, <1>3 DEF Shapes, TypeOK, StoreTypeOK, BusTypeOK

\* The start or the end of a worker keeps the types.
LEMMA ProcessShapes ==
  ASSUME Shapes, NEW w \in Worker, Start(w) \/ Crash(w), UNCHANGED entryVars
  PROVE  Shapes'
<1>1. (StoreTypeOK /\ BusTypeOK)' /\ (EntryTypeOK /\ UploadShape)'
  BY DEF Shapes, TypeOK, StoreTypeOK, BusTypeOK, EntryTypeOK, UploadShape, Start, Crash,
         UnchangedShared, storeVars, busVars, entryVars
<1>2. /\ life \in [Worker -> { "unborn", "up", "dead" }] /\ job \in [Worker -> Job] /\ JobShape
      /\ config \in [Location -> Config] /\ live \in [Location -> Config]
  BY DEF Shapes, TypeOK, WorkerTypeOK
<1>3. life' \in [Worker -> { "unborn", "up", "dead" }]
  BY <1>2 DEF Start, Crash
<1>4. config' = config /\ live' = live
  BY DEF Start, Crash
<1>5. job' \in [Worker -> Job] /\ JobShape'
  <2>1. CASE Start(w)
    BY <1>2, <2>1 DEF Start, JobShape
  <2>2. CASE Crash(w)
    <3>1. IdleJob \in Job
      BY DEF IdleJob, Job, JobAt, Config
    <3>2. job' = [job EXCEPT ![w] = IdleJob]
      BY <2>2 DEF Crash, Return
    <3> QED
      BY <1>2, <3>1, <3>2 DEF JobShape, IdleJob
  <2> QED
    BY <2>1, <2>2
<1> QED
  BY <1>1, <1>2, <1>3, <1>4, <1>5 DEF Shapes, TypeOK, WorkerTypeOK

\* A claim keeps the types.
LEMMA CommandShapes ==
  ASSUME Shapes, NEW w \in Worker, NEW cmd \in commands, HandleCommand(w, cmd), UNCHANGED entryVars
  PROVE  Shapes'
<1>1. cmd.op \in Op /\ cmd.file \in Upload
  BY DEF Shapes, TypeOK, BusTypeOK, Command
<1>2. status' \in [Op -> Status \cup {Absent}] /\ file' = file
  BY DEF Shapes, TypeOK, StoreTypeOK, HandleCommand, ClaimForExecution, Status
<1>3. results' \subseteq Result /\ commands' = commands
  BY <1>1 DEF Shapes, TypeOK, BusTypeOK, HandleCommand, PublishResult, Result, Status
<1>4. job' \in [Worker -> Job] /\ JobShape'
  BY <1>1 DEF Shapes, TypeOK, WorkerTypeOK, JobShape, HandleCommand, Job, JobAt, ExecuteAt, Config
<1>5. (EntryTypeOK /\ UploadShape)'
  BY DEF Shapes, TypeOK, EntryTypeOK, UploadShape, entryVars
<1> QED
  BY <1>2, <1>3, <1>4, <1>5
  DEF Shapes, TypeOK, StoreTypeOK, BusTypeOK, WorkerTypeOK, HandleCommand, UnchangedHost

\* The timeout monitor keeps the types.
LEMMA MonitorShapes ==
  ASSUME Shapes, MonitorStep, UNCHANGED << busVars, entryVars, workerVars >>
  PROVE  Shapes'
<1>1. StoreTypeOK'
  BY DEF Shapes, TypeOK, StoreTypeOK, MonitorStep, Reap, Status
<1>2. (BusTypeOK /\ EntryTypeOK /\ WorkerTypeOK /\ JobShape /\ UploadShape)'
  BY DEF Shapes, TypeOK, BusTypeOK, EntryTypeOK, WorkerTypeOK, JobShape, UploadShape,
         busVars, entryVars, workerVars
<1> QED
  BY <1>1, <1>2 DEF Shapes, TypeOK

\* The types are inductive.
LEMMA ShapesStep == Shapes /\ [Next]_vars => Shapes'
<1> SUFFICES ASSUME Shapes, [Next]_vars PROVE Shapes'
  OBVIOUS
<1>1. CASE EntryStep /\ UNCHANGED workerVars
  BY <1>1, EntryShapes
<1>2. ASSUME NEW w \in Worker, WorkerStep(w), UNCHANGED entryVars PROVE Shapes'
  <2>1. CASE Start(w) \/ Crash(w)
    BY <1>2, <2>1, ProcessShapes
  <2>2. ASSUME NEW cmd \in commands, HandleCommand(w, cmd) PROVE Shapes'
    BY <1>2, <2>2, CommandShapes
  <2>3. CASE JobStep(w)
    BY <1>2, <2>3, JobStepEffect, JobShapes DEF Shapes, TypeOK, WorkerTypeOK
  <2> QED
    BY <1>2, <2>1, <2>2, <2>3 DEF WorkerStep
<1>3. CASE MonitorStep /\ UNCHANGED << busVars, entryVars, workerVars >>
  BY <1>3, MonitorShapes
<1>4. CASE UNCHANGED vars
  BY <1>4 DEF vars, Shapes, TypeOK, StoreTypeOK, BusTypeOK, EntryTypeOK, WorkerTypeOK, JobShape,
              UploadShape, storeVars, busVars, entryVars, workerVars
<1> QED
  BY <1>1, <1>2, <1>3, <1>4 DEF Next

\* TypeOK holds of every reachable state.
THEOREM TypeCorrect == Spec => []TypeOK
<1>1. Spec => []Shapes
  BY ShapesInit, ShapesStep, PTL DEF Spec
<1>2. Shapes => TypeOK
  BY DEF Shapes
<1> QED
  BY <1>1, <1>2, PTL

-----------------------------------------------------------------------------
(* How the store may change *)

\* Every step that changes the status of an operation takes it forward.
Forward(op) ==
  \/ status'[op] = status[op]
  \/ status[op] = Absent /\ status'[op] = "PENDING"
  \/ status[op] \in Status /\ status'[op] \in Status /\ statusRank[status[op]] <= statusRank[status'[op]]

\* AdvanceStatus takes an operation forward and leaves the others alone.
LEMMA AdvanceForward ==
  ASSUME Shapes, NEW o, NEW st \in Status, AdvanceStatus(o, st), NEW op \in Op
  PROVE  Forward(op) /\ (status[op] \in Started => status'[op] \in Started)
<1>1. CASE op = o
  <2>1. status'[op] = st /\ CanAdvance(status[op], st)
    BY <1>1 DEF Shapes, TypeOK, StoreTypeOK, AdvanceStatus
  <2> QED
    BY <2>1, AdvanceKeepsStarted DEF Forward, CanAdvance, statusRank, Status
<1>2. CASE op # o
  BY <1>2 DEF Shapes, TypeOK, StoreTypeOK, AdvanceStatus, Forward
<1> QED
  BY <1>1, <1>2

\* Every step of the system takes every operation forward, and a started one
\* stays started.
LEMMA StepForward ==
  ASSUME Shapes, [Next]_vars, NEW op \in Op
  PROVE  Forward(op) /\ (status[op] \in Started => status'[op] \in Started)
<1> DEFINE Good == Forward(op) /\ (status[op] \in Started => status'[op] \in Started)
<1>0. status \in [Op -> Status \cup {Absent}] /\ results \subseteq Result
  BY DEF Shapes, TypeOK, StoreTypeOK, BusTypeOK
<1>1. CASE UNCHANGED status
  BY <1>1 DEF Forward
<1>2. ASSUME NEW o \in Op, CreateRow(o) PROVE Good
  BY <1>0, <1>2 DEF CreateRow, Forward, Started, Absent, Status
<1>3. ASSUME NEW o, NEW st \in Status, AdvanceStatus(o, st) PROVE Good
  BY <1>3, AdvanceForward
<1>4. CASE EntryStep
  <2>1. ASSUME NEW r \in results, AdvanceStatus(r.op, r.status) PROVE Good
    BY <1>0, <1>3, <2>1 DEF Result
  <2>2. "DISPATCHED" \in Status
    BY DEF Status
  <2> QED
    BY <1>1, <1>2, <1>3, <1>4, <2>1, <2>2, EntryStepEffect DEF EntryEffect
<1>5. ASSUME NEW w \in Worker, WorkerStep(w) PROVE Good
  <2>1. CASE Start(w) \/ Crash(w)
    BY <1>1, <2>1 DEF Start, Crash, UnchangedShared, storeVars
  <2>2. ASSUME NEW cmd \in commands, HandleCommand(w, cmd) PROVE Good
    BY <1>0, <2>2 DEF HandleCommand, ClaimForExecution, Forward, Started, Status, statusRank
  <2>3. CASE JobStep(w)
    BY <1>1, <1>3, <2>3, JobStepEffect DEF JobEffect, Shapes, TypeOK, WorkerTypeOK
  <2> QED
    BY <1>5, <2>1, <2>2, <2>3 DEF WorkerStep
<1>6. CASE MonitorStep
  BY <1>0, <1>6 DEF MonitorStep, Reap, Reapable, Forward, Started, Status, statusRank
<1>7. CASE UNCHANGED vars
  BY <1>1, <1>7 DEF vars, storeVars
<1> QED
  BY <1>4, <1>5, <1>6, <1>7 DEF Next

\* The store never moves an operation to a lower rank.
THEOREM NeverRegresses == Spec => StatusNeverRegresses
<1>1. Shapes /\ [Next]_vars =>
        [\A op \in Op : status[op] \in Status =>
           /\ status'[op] \in Status
           /\ statusRank[status[op]] <= statusRank[status'[op]]]_vars
  <2> SUFFICES ASSUME Shapes, [Next]_vars, NEW op \in Op, status[op] \in Status
               PROVE  status'[op] \in Status /\ statusRank[status[op]] <= statusRank[status'[op]]
    OBVIOUS
  <2>1. Forward(op)
    BY StepForward
  <2> QED
    BY <2>1 DEF Forward, Absent, Status, statusRank
<1>2. Spec => []Shapes
  BY ShapesInit, ShapesStep, PTL DEF Spec
<1> QED
  BY <1>1, <1>2, PTL DEF Spec, StatusNeverRegresses

-----------------------------------------------------------------------------
(* Who executes what *)

\* A job keeps its operation until it returns; a claim gives an idle worker the
\* operation of a command.  At most one worker's job changes in a step.
LEMMA JobOperation ==
  ASSUME Shapes, NEW w \in Worker, JobEffect(w)
  PROVE  /\ job[w].op \in Op
         /\ (job'[w].op = NoOp /\ job'[w].at = "idle") \/ job'[w].op = job[w].op
         /\ \A x \in Worker \ {w} : job'[x] = job[x]
<1>1. job \in [Worker -> Job] /\ job[w].op \in Op
  BY DEF Shapes, TypeOK, WorkerTypeOK, JobShape, JobEffect
<1> QED
  BY <1>1 DEF JobEffect, Return, Goto, IdleJob, Job

\* A claim happens in DISPATCHED and is recorded as RUNNING.
LEMMA ClaimOperation ==
  ASSUME Shapes, NEW w \in Worker, NEW cmd \in commands, HandleCommand(w, cmd)
  PROVE  /\ cmd.op \in Op
         /\ status[cmd.op] = "DISPATCHED" /\ status' = [status EXCEPT ![cmd.op] = "RUNNING"]
         /\ UNCHANGED results \/ PublishResult(cmd.op, "RUNNING")
         /\ \/ job'[w].op = NoOp /\ job'[w].at = "idle"
            \/ job'[w].op = cmd.op /\ job'[w].at = "download"
         /\ \A x \in Worker \ {w} : job'[x] = job[x]
<1>1. job \in [Worker -> Job] /\ cmd.op \in Op /\ job[w].at = "idle" /\ job[w].op = NoOp
  BY DEF Shapes, TypeOK, WorkerTypeOK, BusTypeOK, Command, JobShape, HandleCommand, At
<1> QED
  <2>1. CASE PublishResult(cmd.op, "RUNNING") /\ job' = [job EXCEPT ![w] =
               [at |-> "download", op |-> cmd.op, file |-> cmd.file, backup |-> NoConfig]]
    <3>1. status[cmd.op] = "DISPATCHED" /\ status' = [status EXCEPT ![cmd.op] = "RUNNING"]
      BY DEF HandleCommand, ClaimForExecution
    <3>2. job'[w].op = cmd.op /\ job'[w].at = "download"
      BY <1>1, <2>1
    <3>3. \A x \in Worker \ {w} : job'[x] = job[x]
      BY <1>1, <2>1
    <3> QED
      BY <1>1, <2>1, <3>1, <3>2, <3>3
  <2>2. CASE (UNCHANGED results \/ PublishResult(cmd.op, "RUNNING")) /\ UNCHANGED job
    BY <1>1, <2>2 DEF HandleCommand, ClaimForExecution
  <2> QED
    BY <2>1, <2>2 DEF HandleCommand

\* The start or the end of a worker touches neither the store nor the results.
LEMMA ProcessOperation ==
  ASSUME Shapes, NEW w \in Worker, Start(w) \/ Crash(w)
  PROVE  /\ UNCHANGED << status, results >>
         /\ (job'[w].op = NoOp /\ job'[w].at = "idle") \/ job'[w] = job[w]
         /\ \A x \in Worker \ {w} : job'[x] = job[x]
  BY DEF Shapes, TypeOK, WorkerTypeOK, Start, Crash, Return, IdleJob, Job, UnchangedShared,
         storeVars, busVars

\* Nobody holds an operation and nothing is reported at first.
LEMMA IndInvInit == Init => IndInv
<1> SUFFICES ASSUME Init PROVE IndInv
  OBVIOUS
<1>1. Shapes
  BY ShapesInit
<1>2. results = {} /\ \A w \in Worker : job[w].op = NoOp /\ job[w].at = "idle"
  BY DEF Init, BusInit, WorkerInit, IdleJob
<1> QED
  BY <1>1, <1>2, WorkerAssumption
  DEF IndInv, Shapes, HeldAreStarted, ReportedAreStarted, SingleExecution, ReportsKeepBehind,
      AppliesOnlyWhileApplying

\* A claimed operation is new to all workers and has no results; a job touches
\* the status and the results of its own operation only.
LEMMA WorkerKeepsIndInv ==
  ASSUME IndInv, Shapes', NEW w \in Worker, WorkerStep(w), UNCHANGED entryVars
  PROVE  IndInv'
<1>0. Shapes /\ status \in [Op -> Status \cup {Absent}] /\ job \in [Worker -> Job] /\ results \subseteq Result
  BY DEF IndInv, Shapes, TypeOK, StoreTypeOK, WorkerTypeOK, BusTypeOK
<1>1. \A op \in Op : status[op] \in Started => status'[op] \in Started
  BY <1>0, StepForward DEF Next
<1>2. CASE Start(w) \/ Crash(w)
  <2>1. /\ UNCHANGED << status, results >>
        /\ (job'[w].op = NoOp /\ job'[w].at = "idle") \/ job'[w] = job[w]
        /\ \A x \in Worker \ {w} : job'[x] = job[x]
    BY <1>0, <1>2, ProcessOperation
  <2> QED
    BY <2>1, WorkerAssumption
    DEF IndInv, Shapes, HeldAreStarted, ReportedAreStarted, SingleExecution, ReportsKeepBehind,
        AppliesOnlyWhileApplying
<1>3. ASSUME NEW cmd \in commands, HandleCommand(w, cmd) PROVE IndInv'
  <2>1. /\ cmd.op \in Op
        /\ status[cmd.op] = "DISPATCHED" /\ status' = [status EXCEPT ![cmd.op] = "RUNNING"]
        /\ UNCHANGED results \/ PublishResult(cmd.op, "RUNNING")
        /\ \/ job'[w].op = NoOp /\ job'[w].at = "idle"
           \/ job'[w].op = cmd.op /\ job'[w].at = "download"
        /\ \A x \in Worker \ {w} : job'[x] = job[x]
    BY <1>0, <1>3, ClaimOperation
  <2>2. /\ \A x \in Worker : job[x].op # cmd.op
        /\ \A r \in results : r.op # cmd.op
    BY <2>1 DEF IndInv, HeldAreStarted, ReportedAreStarted, Started
  <2>3. status'[cmd.op] \in Started
    BY <1>0, <2>1 DEF Started, Status
  <2>4. HeldAreStarted'
    BY <1>1, <2>1, <2>3, WorkerAssumption DEF IndInv, HeldAreStarted
  <2>5. ReportedAreStarted'
    BY <1>0, <1>1, <2>1, <2>3 DEF IndInv, ReportedAreStarted, PublishResult, Result
  <2>6. SingleExecution'
    BY <2>1, <2>2 DEF IndInv, SingleExecution
  <2>7. ReportsKeepBehind'
    BY <2>1, <2>2 DEF IndInv, ReportsKeepBehind, PublishResult
  <2>8. AppliesOnlyWhileApplying'
    BY <1>0, <2>1, <2>2 DEF IndInv, AppliesOnlyWhileApplying
  <2> QED
    BY <2>4, <2>5, <2>6, <2>7, <2>8 DEF IndInv, Shapes
<1>4. CASE JobStep(w)
  <2>1. JobEffect(w)
    BY <1>0, <1>4, JobStepEffect
  <2>2. /\ job[w].op \in Op
        /\ (job'[w].op = NoOp /\ job'[w].at = "idle") \/ job'[w].op = job[w].op
        /\ \A x \in Worker \ {w} : job'[x] = job[x]
    BY <1>0, <2>1, JobOperation
  <2>3. \A x \in Worker \ {w} : job[x].op # job[w].op
    BY <2>2, WorkerAssumption DEF IndInv, SingleExecution
  <2>4. \A op \in Op \ {job[w].op} : status'[op] = status[op]
    BY <1>0, <2>1 DEF JobEffect, AdvanceStatus
  <2>5. \A r \in results' : r \in results \/ r.op = job[w].op
    BY <2>1 DEF JobEffect, PublishResult
  <2>6. HeldAreStarted'
    BY <1>1, <2>2, WorkerAssumption DEF IndInv, HeldAreStarted
  <2>7. ReportedAreStarted'
    BY <1>0, <1>1, <2>2, <2>5 DEF IndInv, ReportedAreStarted, HeldAreStarted, Result
  <2>8. SingleExecution'
    BY <2>2, <2>3 DEF IndInv, SingleExecution
  <2>9. ReportsKeepBehind'
    BY <2>1, <2>2, <2>3, <2>5 DEF IndInv, ReportsKeepBehind, JobEffect, PublishResult, Early, Replacing
  <2>10. AppliesOnlyWhileApplying'
    <3> SUFFICES ASSUME NEW x \in Worker, job'[x].at \in Replacing
                 PROVE  status'[job'[x].op] = "APPLYING"
      BY DEF AppliesOnlyWhileApplying, Replacing
    <3>1. CASE x = w
      BY <1>0, <2>1, <2>2, <3>1
      DEF IndInv, AppliesOnlyWhileApplying, JobEffect, AdvanceStatus, Replacing
    <3>2. CASE x # w
      <4>1. job[x].at \in Replacing /\ job[x].op \in Op /\ job[x].op # job[w].op
        BY <2>2, <2>3, <3>2 DEF IndInv, JobShape, Replacing
      <4> QED
        BY <2>2, <2>4, <3>2, <4>1 DEF IndInv, AppliesOnlyWhileApplying, Replacing
    <3> QED
      BY <3>1, <3>2
  <2> QED
    BY <2>6, <2>7, <2>8, <2>9, <2>10 DEF IndInv, Shapes
<1> QED
  BY <1>2, <1>3, <1>4 DEF WorkerStep

\* The entry and the monitor cannot move an operation that is being applied: its
\* results lag behind, DISPATCHED is below it, the monitor does not select it.
LEMMA OthersKeepIndInv ==
  ASSUME IndInv, Shapes', [Next]_vars, UNCHANGED workerVars, UNCHANGED results,
         EntryStep \/ MonitorStep \/ UNCHANGED status
  PROVE  IndInv'
<1>0. Shapes /\ status \in [Op -> Status \cup {Absent}] /\ results \subseteq Result
  BY DEF IndInv, Shapes, TypeOK, StoreTypeOK, BusTypeOK
<1>1. \A op \in Op : status[op] \in Started => status'[op] \in Started
  BY <1>0, StepForward
<1>2. UNCHANGED << job, results >>
  BY DEF workerVars
<1>3. HeldAreStarted' /\ ReportedAreStarted' /\ SingleExecution' /\ ReportsKeepBehind'
  BY <1>0, <1>1, <1>2
  DEF IndInv, HeldAreStarted, ReportedAreStarted, SingleExecution, ReportsKeepBehind, Result
<1>4. AppliesOnlyWhileApplying'
  <2> SUFFICES ASSUME NEW w \in Worker, job[w].at \in Replacing
               PROVE  status'[job[w].op] = "APPLYING"
    BY <1>2 DEF AppliesOnlyWhileApplying, Replacing
  <2> DEFINE op == job[w].op
  <2>1. op \in Op /\ status[op] = "APPLYING"
    BY DEF IndInv, AppliesOnlyWhileApplying, JobShape, Replacing
  <2>2. \A r \in results : r.op = op => r.status \in { "RUNNING", "TRANSFERRED" }
    BY DEF IndInv, ReportsKeepBehind, Replacing
  <2>3. \A st \in { "RUNNING", "TRANSFERRED", "DISPATCHED" } : ~CanAdvance(status[op], st)
    BY <2>1 DEF CanAdvance, statusRank
  <2>4. CASE EntryStep
    <3>1. ASSUME NEW o \in Op, CreateRow(o) PROVE status'[op] = status[op]
      BY <1>0, <2>1, <3>1 DEF CreateRow, Absent
    <3>2. ASSUME NEW r \in results, AdvanceStatus(r.op, r.status) PROVE status'[op] = status[op]
      BY <1>0, <2>1, <2>2, <2>3, <3>2 DEF AdvanceStatus
    <3>3. ASSUME NEW o \in Op, AdvanceStatus(o, "DISPATCHED") PROVE status'[op] = status[op]
      BY <1>0, <2>1, <2>3, <3>3 DEF AdvanceStatus
    <3> QED
      BY <2>1, <2>4, <3>1, <3>2, <3>3, EntryStepEffect DEF EntryEffect
  <2>5. CASE MonitorStep
    BY <1>0, <2>1, <2>5 DEF MonitorStep, Reap, Reapable
  <2> QED
    BY <2>1, <2>4, <2>5
<1> QED
  BY <1>3, <1>4 DEF IndInv, Shapes

\* IndInv is inductive.
LEMMA IndInvStep == IndInv /\ [Next]_vars => IndInv'
<1> SUFFICES ASSUME IndInv, [Next]_vars PROVE IndInv'
  OBVIOUS
<1>0. Shapes'
  BY ShapesStep DEF IndInv, Shapes
<1>1. CASE EntryStep /\ UNCHANGED workerVars
  BY <1>0, <1>1, EntryStepEffect, OthersKeepIndInv DEF EntryEffect
<1>2. ASSUME NEW w \in Worker, WorkerStep(w), UNCHANGED entryVars PROVE IndInv'
  BY <1>0, <1>2, WorkerKeepsIndInv
<1>3. CASE MonitorStep /\ UNCHANGED << busVars, entryVars, workerVars >>
  BY <1>0, <1>3, OthersKeepIndInv DEF busVars
<1>4. CASE UNCHANGED vars
  BY <1>0, <1>4, OthersKeepIndInv DEF vars, busVars, storeVars
<1> QED
  BY <1>1, <1>2, <1>3, <1>4 DEF Next

\* IndInv holds of every reachable state.
LEMMA IndInvHolds == Spec => []IndInv
  BY IndInvInit, IndInvStep, PTL DEF Spec

\* No two workers ever hold the same operation.
THEOREM ExecutedByOne == Spec => []SingleExecution
<1>1. IndInv => SingleExecution
  BY DEF IndInv
<1> QED
  BY <1>1, IndInvHolds, PTL

\* While a configuration is being replaced its operation is APPLYING.
THEOREM AppliedWhileApplying == Spec => []AppliesOnlyWhileApplying
<1>1. IndInv => AppliesOnlyWhileApplying
  BY DEF IndInv
<1> QED
  BY <1>1, IndInvHolds, PTL

-----------------------------------------------------------------------------
(* Which file is deployed *)

\* The row of an operation is written once, by an upload for that operation.
LEMMA FileWrittenOnce ==
  ASSUME Shapes, [Next]_vars
  PROVE  \A op \in Op : file[op] # NoUpload => file'[op] = file[op]
<1> USE DEF storeVars
<1>0. file \in [Op -> Upload \cup {NoUpload}]
  BY DEF Shapes, TypeOK, StoreTypeOK
<1>1. CASE UNCHANGED file
  BY <1>1
<1>2. CASE EntryStep
  <2>1. ASSUME NEW u \in Upload, UploadFinish(u)
        PROVE  \A op \in Op : file[op] # NoUpload => file'[op] = file[op]
    BY <1>0, <1>1, <2>1 DEF UploadFinish, SaveFile
  <2>2. (\E u \in Upload : UploadFinish(u)) \/ UNCHANGED file
    BY <1>2 DEF EntryStep, CreateUpdate, HandleResult, UploadCreate, LocateNode, MarkDispatched,
                PublishCommand, UploadAborted, NodeUnavailable, RegisterNode
  <2> QED
    BY <1>1, <2>1, <2>2
<1>3. ASSUME NEW w \in Worker, WorkerStep(w) PROVE UNCHANGED file
  BY <1>3, JobStepEffect
  DEF Shapes, TypeOK, WorkerTypeOK, WorkerStep, Start, Crash, HandleCommand, JobEffect, UnchangedShared
<1>4. CASE MonitorStep \/ UNCHANGED vars
  BY <1>1, <1>4 DEF MonitorStep, Reap, vars
<1> QED
  BY <1>1, <1>2, <1>3, <1>4 DEF Next

\* What is on record stays on record.
LEMMA RecordedStays ==
  ASSUME Shapes, [Next]_vars, NEW c, Recorded(c)
  PROVE  Recorded(c)'
<1>1. c \in Upload => UploadOp[c] \in Op /\ file[UploadOp[c]] = c /\ c # NoUpload
  BY StoreAssumption DEF Recorded
<1> QED
  BY <1>1, FileWrittenOnce DEF Recorded

\* Nothing carries a file at first.
LEMMA RecordsInit == Init => Records
<1> SUFFICES ASSUME Init PROVE Records
  OBVIOUS
<1>1. \A u \in Upload : upload[u].at = "new"
  BY DEF Init, EntryInit
<1>2. commands = {}
  BY DEF Init, BusInit
<1>3. \A w \in Worker : job[w].file \notin Upload /\ job[w].backup \notin Upload
  BY StoreAssumption, WorkerAssumption DEF Init, WorkerInit, IdleJob
<1>4. \A l \in Location : config[l] \notin Upload
  BY WorkerAssumption DEF Init, WorkerInit
<1> QED
  BY <1>1, <1>2, <1>3, <1>4
  DEF Records, UploadsOnRecord, CommandsOnRecord, JobsOnRecord, ConfigsOnRecord, Recorded

\* A hook publishes only the upload it has stored as the file on record.
LEMMA EntryKeepsRecords ==
  ASSUME Shapes, Shapes', Records, EntryStep, UNCHANGED workerVars
  PROVE  Records'
<1>0. Next
  BY DEF Next
<1>1. JobsOnRecord' /\ ConfigsOnRecord'
  BY <1>0, RecordedStays DEF Records, JobsOnRecord, ConfigsOnRecord, workerVars
<1>2. UploadsOnRecord' /\ CommandsOnRecord'
  <2>0. /\ UploadsOnRecord /\ CommandsOnRecord /\ commands \subseteq Command
        /\ upload \in [Upload -> [at : UploadAt, instance : Instance \cup {NotOnline}]]
        /\ file \in [Op -> Upload \cup {NoUpload}]
    BY DEF Records, Shapes, TypeOK, StoreTypeOK, BusTypeOK, EntryTypeOK
  <2>1. \A u \in Upload : file[UploadOp[u]] = u => file'[UploadOp[u]] = u
    BY <1>0, RecordedStays DEF Recorded
  <2>2. ASSUME UNCHANGED commands,
               \A u \in Upload : upload'[u].at \in { "stored", "located", "dispatched" } =>
                 upload[u].at \in { "stored", "located", "dispatched" }
        PROVE  UploadsOnRecord' /\ CommandsOnRecord'
    BY <2>0, <2>1, <2>2 DEF UploadsOnRecord, CommandsOnRecord, Command
  <2>3. ASSUME NEW op \in Op, CreateUpdate(op) PROVE UploadsOnRecord' /\ CommandsOnRecord'
    BY <2>2, <2>3 DEF CreateUpdate, busVars, entryVars
  <2>4. ASSUME NEW r \in results, HandleResult(r) PROVE UploadsOnRecord' /\ CommandsOnRecord'
    BY <2>2, <2>4 DEF HandleResult, busVars, entryVars
  <2>5. ASSUME NEW u \in Upload,
               UploadCreate(u) \/ LocateNode(u) \/ MarkDispatched(u) \/ UploadAborted(u)
        PROVE  UploadsOnRecord' /\ CommandsOnRecord'
    BY <2>0, <2>2, <2>5
    DEF UploadCreate, LocateNode, MarkDispatched, UploadAborted, UploadGoto, UploadOver, busVars
  <2>6. ASSUME NEW u \in Upload, UploadFinish(u) PROVE UploadsOnRecord' /\ CommandsOnRecord'
    <3>1. CASE SaveFile(u) /\ UploadGoto(u, "stored")
      <4>1. file'[UploadOp[u]] = u
        BY <2>0, <3>1, StoreAssumption DEF SaveFile
      <4>2. UNCHANGED commands
        BY <2>6 DEF UploadFinish, busVars
      <4>3. UploadsOnRecord'
        BY <2>0, <2>1, <3>1, <4>1 DEF UploadGoto, UploadsOnRecord
      <4> QED
        BY <2>0, <2>1, <4>2, <4>3 DEF CommandsOnRecord, Command
    <3>2. CASE UploadOver(u)
      BY <2>0, <2>2, <2>6, <3>2 DEF UploadFinish, UploadOver, busVars
    <3> QED
      BY <2>6, <3>1, <3>2 DEF UploadFinish
  <2>7. ASSUME NEW u \in Upload, PublishCommand(u) PROVE UploadsOnRecord' /\ CommandsOnRecord'
    <3>1. /\ file[UploadOp[u]] = u /\ UNCHANGED file
          /\ commands' = commands \cup
               {[op |-> UploadOp[u], instance |-> upload[u].instance, file |-> u]}
      BY <2>0, <2>7 DEF PublishCommand, UploadsOnRecord, storeVars
    <3>2. UploadsOnRecord'
      BY <2>0, <2>7, <3>1 DEF PublishCommand, UploadOver, UploadsOnRecord
    <3> QED
      BY <2>0, <3>1, <3>2 DEF CommandsOnRecord
  <2>8. ASSUME NEW n \in Node, NEW i, NodeUnavailable(n) \/ RegisterNode(n, i)
        PROVE  UploadsOnRecord' /\ CommandsOnRecord'
    BY <2>2, <2>8 DEF NodeUnavailable, RegisterNode, busVars
  <2> QED
    BY <2>3, <2>4, <2>5, <2>6, <2>7, <2>8, WorkerAssumption DEF EntryStep
<1> QED
  BY <1>1, <1>2 DEF Records

\* A job takes its file from a command and its backup from a configuration.
LEMMA WorkerKeepsRecords ==
  ASSUME Shapes, Records, NEW w \in Worker, WorkerStep(w), UNCHANGED entryVars
  PROVE  Records'
<1>0. Next
  BY DEF Next
<1>1. UNCHANGED << file, commands, upload >>
  BY JobStepEffect DEF Shapes, TypeOK, WorkerTypeOK, WorkerStep, Start, Crash, HandleCommand,
     JobEffect, UnchangedShared, storeVars, busVars, entryVars
<1>2. (UploadsOnRecord /\ CommandsOnRecord)'
  BY <1>1 DEF Records, UploadsOnRecord, CommandsOnRecord
<1>3. /\ job \in [Worker -> Job] /\ config \in [Location -> Config] /\ Where(w) \in Location
      /\ commands \subseteq Command
  BY WorkerAssumption DEF Shapes, TypeOK, BusTypeOK, WorkerTypeOK, Where
<1>4. Recorded(NoUpload) /\ Recorded(NoConfig)
  BY StoreAssumption, WorkerAssumption DEF Recorded
<1>5. \A x \in Worker : Recorded(job'[x].file) /\ Recorded(job'[x].backup)
  <2>0. \A x \in Worker : Recorded(job[x].file) /\ Recorded(job[x].backup)
    BY DEF Records, JobsOnRecord
  <2>1. CASE Start(w) \/ Crash(w)
    BY <1>3, <1>4, <2>0, <2>1 DEF Start, Crash, Return, IdleJob
  <2>2. ASSUME NEW cmd \in commands, HandleCommand(w, cmd)
        PROVE  \A x \in Worker : Recorded(job'[x].file) /\ Recorded(job'[x].backup)
    <3>1. Recorded(cmd.file)
      BY DEF Records, CommandsOnRecord, Recorded
    <3>2. CASE UNCHANGED job
      BY <2>0, <3>2
    <3>3. CASE job' = [job EXCEPT ![w] =
                 [at |-> "download", op |-> cmd.op, file |-> cmd.file, backup |-> NoConfig]]
      BY <1>3, <1>4, <2>0, <3>1, <3>3
    <3> QED
      BY <2>2, <3>2, <3>3 DEF HandleCommand
  <2>3. CASE JobStep(w)
    <3>1. JobEffect(w)
      BY <1>3, <2>3, JobStepEffect
    <3>2. CASE Return(w)
      BY <1>3, <1>4, <2>0, <3>2 DEF Return, IdleJob
    <3>3. CASE \E at \in JobAt \ {"idle"} : Goto(w, at)
      BY <1>3, <2>0, <3>3 DEF Goto, Job
    <3>4. CASE job' = [job EXCEPT ![w].at = "mark_applying", ![w].backup = config[Where(w)]]
      BY <1>3, <2>0, <3>4 DEF Job, Records, ConfigsOnRecord
    <3> QED
      BY <3>1, <3>2, <3>3, <3>4 DEF JobEffect
  <2> QED
    BY <2>1, <2>2, <2>3 DEF WorkerStep
<1>6. \A l \in Location : Recorded(config'[l])
  <2>1. \A l \in Location : Recorded(config[l])
    BY DEF Records, ConfigsOnRecord
  <2>2. CASE UNCHANGED config
    BY <2>1, <2>2
  <2>3. CASE JobStep(w)
    <3>1. JobEffect(w) /\ Recorded(job[w].file) /\ Recorded(job[w].backup)
      BY <1>3, <2>3, JobStepEffect DEF Records, JobsOnRecord
    <3> QED
      BY <1>3, <2>1, <3>1 DEF JobEffect
  <2> QED
    BY <2>2, <2>3 DEF WorkerStep, Start, Crash, HandleCommand, UnchangedHost
<1>7. JobsOnRecord' /\ ConfigsOnRecord'
  BY <1>1, <1>5, <1>6 DEF JobsOnRecord, ConfigsOnRecord, Recorded
<1> QED
  BY <1>2, <1>7 DEF Records

\* Records is inductive, given the types.
LEMMA RecordsStep == Shapes /\ Records /\ [Next]_vars => Records'
<1> SUFFICES ASSUME Shapes, Records, [Next]_vars PROVE Records'
  OBVIOUS
<1>1. CASE EntryStep /\ UNCHANGED workerVars
  BY <1>1, ShapesStep, EntryKeepsRecords
<1>2. ASSUME NEW w \in Worker, WorkerStep(w), UNCHANGED entryVars PROVE Records'
  BY <1>2, WorkerKeepsRecords
<1>3. CASE UNCHANGED << file, busVars, entryVars, workerVars >>
  BY <1>3 DEF Records, UploadsOnRecord, CommandsOnRecord, JobsOnRecord, ConfigsOnRecord, Recorded,
              busVars, entryVars, workerVars
<1> QED
  BY <1>1, <1>2, <1>3 DEF Next, MonitorStep, Reap, vars, storeVars

\* Commands and installed configurations are the files on record.
THEOREM DeployedIsOnRecord == Spec => []DeploysFileOfRecord
<1>1. Init => Shapes /\ Records
  BY ShapesInit, RecordsInit
<1>2. Shapes /\ Records /\ [Next]_vars => (Shapes /\ Records)'
  BY ShapesStep, RecordsStep
<1>3. Shapes /\ Records => DeploysFileOfRecord
  BY DEF Records, CommandsOnRecord, ConfigsOnRecord, Recorded, DeploysFileOfRecord
<1> QED
  BY <1>1, <1>2, <1>3, PTL DEF Spec
=============================================================================

---------------------- MODULE UpdateFlowLifecycle_proofs ----------------------
(***************************************************************************)
(* Proofs that UpdateFlow implements OperationLifecycle, and that a        *)
(* dispatch once refused stays refused, for any sets of operations,        *)
(* uploads, nodes, workers and locations.                                  *)
(*                                                                         *)
(* Ranks alone allow steps that are no edges (SUCCEEDED to ROLLING_BACK).  *)
(* LifecycleInv says how far an operation has come when a job stands at a  *)
(* statement or when a report is in flight, and that what is held has not  *)
(* ended; ranks exclude the rest.                                          *)
(***************************************************************************)
EXTENDS UpdateFlow_proofs

\* The statuses workers write, each with the one reached before at least.
Writes ==
  { << "RUNNING", "FAILED" >>, << "RUNNING", "BACKUP_CREATED" >>,
    << "BACKUP_CREATED", "APPLYING" >>, << "APPLYING", "HEALTH_CHECKING" >>,
    << "BACKUP_CREATED", "FAILED" >>, << "BACKUP_CREATED", "ROLLING_BACK" >>,
    << "ROLLING_BACK", "ROLLBACK_HEALTH_CHECKING" >>, << "ROLLING_BACK", "ROLLED_BACK" >>,
    << "ROLLING_BACK", "ROLLBACK_FAILED" >> }

\* One status to the next: itself, or along an edge.
Along(cur, next) == next = cur \/ next \in Lifecycle!Edges[cur]

\* An operation that has not ended moves along an edge when a worker writes.
LEMMA WriteAlongEdge ==
  ASSUME NEW cur \in Started \ Final, NEW low, NEW st, << low, st >> \in Writes,
         statusRank[low] <= statusRank[cur], CanAdvance(cur, st)
  PROVE  Along(cur, st)
<1> USE DEF Along, Lifecycle!Edges, Started, Status, Final, CanAdvance, statusRank
<1>1. CASE low = "RUNNING" /\ st = "FAILED"
  BY <1>1
<1>2. CASE low = "RUNNING" /\ st = "BACKUP_CREATED"
  BY <1>2
<1>3. CASE low = "BACKUP_CREATED" /\ st = "APPLYING"
  BY <1>3
<1>4. CASE low = "APPLYING" /\ st = "HEALTH_CHECKING"
  BY <1>4
<1>5. CASE low = "BACKUP_CREATED" /\ st = "FAILED"
  BY <1>5
<1>6. CASE low = "BACKUP_CREATED" /\ st = "ROLLING_BACK"
  BY <1>6
<1>7. CASE low = "ROLLING_BACK" /\ st = "ROLLBACK_HEALTH_CHECKING"
  BY <1>7
<1>8. CASE low = "ROLLING_BACK" /\ st = "ROLLED_BACK"
  BY <1>8
<1>9. CASE low = "ROLLING_BACK" /\ st = "ROLLBACK_FAILED"
  BY <1>9
<1> QED
  BY <1>1, <1>2, <1>3, <1>4, <1>5, <1>6, <1>7, <1>8, <1>9 DEF Writes

\* A worker's write, whatever is reported of it.
LEMMA WriteMoves ==
  ASSUME status \in [Op -> Status \cup {Absent}], NEW op \in Op, status[op] \in Started \ Final,
         NEW low, NEW st, << low, st >> \in Writes, statusRank[low] <= statusRank[status[op]],
         NEW ok \in BOOLEAN, AdvanceThenGet(op, st, ok)
  PROVE  /\ status'[op] \in { status[op], st }
         /\ Along(status[op], status'[op])
         /\ statusRank[status[op]] <= statusRank[status'[op]]
         /\ ok => status'[op] = st
<1>1. CASE AdvanceStatus(op, st)
  <2>1. status'[op] = st /\ CanAdvance(status[op], st)
    BY <1>1 DEF AdvanceStatus
  <2>2. st \in Status
    BY DEF Writes, Status
  <2> QED
    BY <2>1, <2>2, WriteAlongEdge, AdvanceKeepsStarted
<1>2. CASE ~ok /\ UNCHANGED status
  <2>1. statusRank[status[op]] \in Nat
    BY DEF Started, Status, statusRank
  <2> QED
    BY <1>2, <2>1 DEF Along
<1> QED
  BY <1>1, <1>2 DEF AdvanceThenGet

-----------------------------------------------------------------------------
(* What a step of a job does to its operation *)

\* The operation moves along an edge at most, as far as the job's next statement
\* and its reports presume; a job that goes on has not ended its operation.
JobMoves(w) ==
  /\ Along(status[job[w].op], status'[job[w].op])
  /\ job'[w].at # "idle" =>
       /\ statusRank[ReachedAt[job'[w].at]] <= statusRank[status'[job[w].op]]
       /\ status'[job[w].op] \notin Final
  /\ \A r \in results' \ results :
       /\ r.op = job[w].op
       /\ r.status \in DOMAIN ReachedBy
       /\ statusRank[ReachedBy[r.status]] <= statusRank[status'[job[w].op]]
       /\ r.status \in Final => job'[w].at = "idle"

\* A job that goes on from a store that has come far enough, with nothing or one
\* result published.
LEMMA GoesOn ==
  ASSUME NEW w \in Worker, NEW at \in DOMAIN ReachedAt, job'[w].at = at,
         Along(status[job[w].op], status'[job[w].op]),
         statusRank[ReachedAt[at]] <= statusRank[status'[job[w].op]],
         status'[job[w].op] \notin Final,
         \/ UNCHANGED results
         \/ \E st \in DOMAIN ReachedBy \ Final :
              /\ PublishResult(job[w].op, st)
              /\ statusRank[ReachedBy[st]] <= statusRank[status'[job[w].op]]
  PROVE  JobMoves(w)
  BY DEF JobMoves, PublishResult

\* A job that ends, with nothing or one result published.
LEMMA GoesIdle ==
  ASSUME NEW w \in Worker, job \in [Worker -> Job], Return(w),
         Along(status[job[w].op], status'[job[w].op]),
         \/ UNCHANGED results
         \/ \E st \in DOMAIN ReachedBy :
              /\ PublishResult(job[w].op, st)
              /\ statusRank[ReachedBy[st]] <= statusRank[status'[job[w].op]]
  PROVE  JobMoves(w)
<1>1. job'[w].at = "idle"
  BY DEF Return, IdleJob
<1> QED
  BY <1>1 DEF JobMoves, PublishResult

\* The last statement of a failure path.
LEMMA MarkedIdle ==
  ASSUME NEW w \in Worker, job \in [Worker -> Job], NEW op \in Op, op = job[w].op,
         status \in [Op -> Status \cup {Absent}], status[op] \in Started \ Final,
         NEW st \in DOMAIN ReachedBy, NEW low, << low, st >> \in Writes,
         statusRank[low] <= statusRank[status[op]], MarkAndReturn(w, st),
         statusRank[ReachedBy[st]] <= statusRank[st]
  PROVE  JobMoves(w)
<1>1. PICK ok \in BOOLEAN : /\ AdvanceThenGet(op, st, ok)
                            /\ IF ok THEN PublishResult(op, st) ELSE UNCHANGED results
  BY DEF MarkAndReturn
<1>2. Along(status[op], status'[op]) /\ (ok => status'[op] = st)
  BY <1>1, WriteMoves
<1>3. Return(w)
  BY DEF MarkAndReturn
<1> QED
  BY <1>1, <1>2, <1>3, GoesIdle

\* Where Goto and Failed lead.
LEMMA Leads ==
  ASSUME job \in [Worker -> Job], NEW w \in Worker
  PROVE  /\ \A at : Goto(w, at) => job'[w].at = at
         /\ Failed(w) => job'[w].at \in { "fail", "rb_mark_failed" }
  BY DEF Goto, Failed, Job

\* One case per step of a job.
LEMMA JobStepMoves ==
  ASSUME LifecycleInv, NEW w \in Worker, JobStep(w)
  PROVE  JobMoves(w)
<1> DEFINE op == job[w].op
<1>0. /\ job \in [Worker -> Job] /\ status \in [Op -> Status \cup {Absent}]
      /\ job[w].at # "idle" /\ op \in Op /\ status[op] \in Started \ Final
      /\ statusRank[ReachedAt[job[w].at]] <= statusRank[status[op]]
  <2>1. job \in [Worker -> Job] /\ status \in [Op -> Status \cup {Absent}]
    BY DEF LifecycleInv, IndInv, TypeOK, StoreTypeOK, WorkerTypeOK
  <2>2. job[w].at # "idle"
    BY <2>1, JobStepEffect DEF JobEffect
  <2>3. op \in Op
    BY <2>2 DEF LifecycleInv, IndInv, JobShape
  <2> QED
    BY <2>1, <2>2, <2>3 DEF LifecycleInv, IndInv, HeldAreStarted, HeldUnfinished, JobsReached
<1>a. statusRank[status[op]] \in Nat
  BY <1>0 DEF Started, Status, statusRank
<1> USE <1>0
\* A step that leaves the store alone, and one that goes on from there.
<1>b. UNCHANGED status => Along(status[op], status'[op])
  BY DEF Along
<1>c. ASSUME UNCHANGED status, NEW at \in DOMAIN ReachedAt, job'[w].at = at, UNCHANGED results,
             statusRank[ReachedAt[at]] <= statusRank[ReachedAt[job[w].at]]
      PROVE  JobMoves(w)
  <2>1. statusRank[ReachedAt[at]] \in Nat /\ statusRank[ReachedAt[job[w].at]] \in Nat
    <3>1. job[w].at \in DOMAIN ReachedAt
      BY DEF Job, JobAt, ExecuteAt, RollbackAt, ReachedAt
    <3>2. \A x \in DOMAIN ReachedAt : statusRank[ReachedAt[x]] \in Nat
      BY DEF ReachedAt, statusRank
    <3> QED
      BY <3>1, <3>2
  <2>2. statusRank[ReachedAt[at]] <= statusRank[status'[op]]
    BY <1>a, <1>c, <2>1
  <2> QED
    BY <1>b, <1>c, <2>2, GoesOn
<1>d. ASSUME NEW low, NEW st, << low, st >> \in Writes, statusRank[low] <= statusRank[status[op]],
             NEW ok \in BOOLEAN, AdvanceThenGet(op, st, ok)
      PROVE  /\ status'[op] \in { status[op], st }
             /\ Along(status[op], status'[op])
             /\ statusRank[status[op]] <= statusRank[status'[op]]
             /\ ok => status'[op] = st
             /\ statusRank[status'[op]] \in Nat
             /\ st \notin Final => status'[op] \notin Final
  <2>1. /\ status'[op] \in { status[op], st }
        /\ Along(status[op], status'[op])
        /\ statusRank[status[op]] <= statusRank[status'[op]]
        /\ ok => status'[op] = st
    BY <1>d, WriteMoves
  <2>2. statusRank[st] \in Nat
    BY <1>d DEF Writes, statusRank
  <2> QED
    BY <1>a, <2>1, <2>2
<1>1. CASE Download(w)
  <2>1. job[w].at = "download" /\ UNCHANGED status
    BY <1>1 DEF Download, At, storeVars
  <2>2. statusRank["RUNNING"] <= statusRank[status'[op]]
    BY <2>1 DEF ReachedAt
  <2>3. CASE PublishResult(op, "TRANSFERRED") /\ Goto(w, "mark_backup")
    <3>1. job'[w].at = "mark_backup"
      BY <2>3, Leads
    <3>2. ReachedAt["mark_backup"] = "RUNNING" /\ ReachedBy["TRANSFERRED"] = "RUNNING"
          /\ "mark_backup" \in DOMAIN ReachedAt /\ "TRANSFERRED" \in DOMAIN ReachedBy \ Final
      BY DEF ReachedAt, ReachedBy, Final
    <3> QED
      BY <1>b, <2>1, <2>2, <2>3, <3>1, <3>2, GoesOn
  <2>4. CASE PublishResult(op, "TRANSFERRED") /\ Return(w)
    <3>1. ReachedBy["TRANSFERRED"] = "RUNNING" /\ "TRANSFERRED" \in DOMAIN ReachedBy
      BY DEF ReachedBy
    <3> QED
      BY <1>b, <2>1, <2>2, <2>4, <3>1, GoesIdle
  <2>5. CASE UNCHANGED results /\ Goto(w, "fail")
    BY <1>c, <2>1, <2>5, Leads DEF ReachedAt, statusRank
  <2> QED
    BY <1>1, <2>3, <2>4, <2>5 DEF Download
<1>2. CASE FailOperation(w)
  <2>1. job[w].at = "fail" /\ MarkAndReturn(w, "FAILED")
    BY <1>2 DEF FailOperation, At
  <2>2. statusRank["RUNNING"] <= statusRank[status[op]]
    BY <2>1 DEF ReachedAt
  <2>3. << "RUNNING", "FAILED" >> \in Writes /\ "FAILED" \in DOMAIN ReachedBy
        /\ statusRank[ReachedBy["FAILED"]] <= statusRank["FAILED"]
    BY DEF Writes, ReachedBy, statusRank
  <2> QED
    BY <2>1, <2>2, <2>3, MarkedIdle
<1>3. CASE MarkBackup(w)
  <2>1. job[w].at = "mark_backup" /\ UNCHANGED results
    BY <1>3 DEF MarkBackup, At, busVars
  <2>2. statusRank["RUNNING"] <= statusRank[status[op]]
    BY <2>1 DEF ReachedAt
  <2>3. ASSUME NEW ok \in BOOLEAN, AdvanceThenGet(op, "BACKUP_CREATED", ok),
               Goto(w, IF ok THEN "backup" ELSE "fail")
        PROVE  JobMoves(w)
    <3>1. << "RUNNING", "BACKUP_CREATED" >> \in Writes /\ "BACKUP_CREATED" \notin Final
      BY DEF Writes, Final
    <3>2. /\ Along(status[op], status'[op])
          /\ statusRank[status[op]] <= statusRank[status'[op]]
          /\ ok => status'[op] = "BACKUP_CREATED"
          /\ status'[op] \notin Final
          /\ statusRank[status'[op]] \in Nat
      BY <1>d, <2>2, <2>3, <3>1
    <3>3. CASE ok
      <4>1. job'[w].at = "backup"
        BY <2>3, <3>3, Leads
      <4>2. "backup" \in DOMAIN ReachedAt /\ ReachedAt["backup"] = "BACKUP_CREATED"
        BY DEF ReachedAt
      <4> QED
        BY <2>1, <3>2, <3>3, <4>1, <4>2, GoesOn
    <3>4. CASE ~ok
      <4>1. job'[w].at = "fail"
        BY <2>3, <3>4, Leads
      <4>2. "fail" \in DOMAIN ReachedAt /\ ReachedAt["fail"] = "RUNNING" /\ statusRank["RUNNING"] \in Nat
        BY DEF ReachedAt, statusRank
      <4>3. statusRank["RUNNING"] <= statusRank[status'[op]]
        BY <1>a, <2>2, <3>2, <4>2
      <4> QED
        BY <2>1, <3>2, <4>1, <4>2, <4>3, GoesOn
    <3> QED
      BY <3>3, <3>4
  <2>4. CASE UNCHANGED status /\ Goto(w, "fail")
    BY <1>c, <2>1, <2>4, Leads DEF ReachedAt, statusRank
  <2> QED
    BY <1>3, <2>3, <2>4 DEF MarkBackup
<1>4. CASE Backup(w)
  <2>1. /\ job[w].at = "backup" /\ UNCHANGED status /\ UNCHANGED results
        /\ job'[w].at \in { "mark_applying", "fail" }
    BY <1>4, Leads DEF Backup, At, UnchangedShared, storeVars, busVars, Job
  <2> QED
    BY <1>c, <2>1 DEF ReachedAt, statusRank
<1>5. CASE MarkApplying(w)
  <2>1. PICK ok \in BOOLEAN : /\ AdvanceThenGet(op, "APPLYING", ok)
                              /\ IF ok THEN Goto(w, "apply") ELSE Failed(w)
    BY <1>5 DEF MarkApplying
  <2>2. job[w].at = "mark_applying" /\ UNCHANGED results
    BY <1>5 DEF MarkApplying, At, busVars
  <2>3. statusRank["BACKUP_CREATED"] <= statusRank[status[op]]
    BY <2>2 DEF ReachedAt
  <2>4. << "BACKUP_CREATED", "APPLYING" >> \in Writes /\ "APPLYING" \notin Final
    BY DEF Writes, Final
  <2>5. /\ Along(status[op], status'[op])
        /\ statusRank[status[op]] <= statusRank[status'[op]]
        /\ ok => status'[op] = "APPLYING"
        /\ status'[op] \notin Final
        /\ statusRank[status'[op]] \in Nat
    BY <1>d, <2>1, <2>3, <2>4
  <2>6. CASE ok
    <3>1. job'[w].at = "apply"
      BY <2>1, <2>6, Leads
    <3>2. "apply" \in DOMAIN ReachedAt /\ ReachedAt["apply"] = "APPLYING"
      BY DEF ReachedAt
    <3> QED
      BY <2>2, <2>5, <2>6, <3>1, <3>2, GoesOn
  <2>7. CASE ~ok
    <3>1. job'[w].at \in { "fail", "rb_mark_failed" }
      BY <2>1, <2>7, Leads
    <3>2. \A at \in { "fail", "rb_mark_failed" } :
            at \in DOMAIN ReachedAt /\ statusRank[ReachedAt[at]] \in 0 .. 4
      BY DEF ReachedAt, statusRank
    <3>3. statusRank["BACKUP_CREATED"] = 4
      BY DEF statusRank
    <3>4. statusRank[ReachedAt[job'[w].at]] <= statusRank[status'[op]]
      BY <1>a, <2>3, <2>5, <3>1, <3>2, <3>3
    <3> QED
      BY <2>2, <2>5, <3>1, <3>2, <3>4, GoesOn
  <2> QED
    BY <2>6, <2>7
<1>6. CASE Apply(w)
  <2>1. job[w].at = "apply" /\ UNCHANGED status /\ UNCHANGED results
    BY <1>6 DEF Apply, At, UnchangedShared, storeVars, busVars
  <2>2. job'[w].at \in { "restart", "fail", "rb_mark_failed" }
    BY <1>6, Leads DEF Apply
  <2> QED
    BY <1>c, <2>1, <2>2 DEF ReachedAt, statusRank
<1>7. CASE Restart(w)
  <2>1. job[w].at = "restart" /\ UNCHANGED status /\ UNCHANGED results
    BY <1>7 DEF Restart, At, UnchangedShared, storeVars, busVars
  <2>2. job'[w].at \in { "mark_checking", "fail", "rb_mark_failed" }
    BY <1>7, Leads DEF Restart
  <2> QED
    BY <1>c, <2>1, <2>2 DEF ReachedAt, statusRank
<1>8. CASE MarkChecking(w)
  <2>1. PICK ok \in BOOLEAN : /\ AdvanceThenGet(op, "HEALTH_CHECKING", ok)
                              /\ IF ok THEN Goto(w, "check") ELSE Failed(w)
    BY <1>8 DEF MarkChecking
  <2>2. job[w].at = "mark_checking" /\ UNCHANGED results
    BY <1>8 DEF MarkChecking, At, busVars
  <2>3. statusRank["APPLYING"] <= statusRank[status[op]]
    BY <2>2 DEF ReachedAt
  <2>4. << "APPLYING", "HEALTH_CHECKING" >> \in Writes /\ "HEALTH_CHECKING" \notin Final
    BY DEF Writes, Final
  <2>5. /\ Along(status[op], status'[op])
        /\ statusRank[status[op]] <= statusRank[status'[op]]
        /\ ok => status'[op] = "HEALTH_CHECKING"
        /\ status'[op] \notin Final
        /\ statusRank[status'[op]] \in Nat
    BY <1>d, <2>1, <2>3, <2>4
  <2>6. CASE ok
    <3>1. job'[w].at = "check"
      BY <2>1, <2>6, Leads
    <3>2. "check" \in DOMAIN ReachedAt /\ ReachedAt["check"] = "HEALTH_CHECKING"
      BY DEF ReachedAt
    <3> QED
      BY <2>2, <2>5, <2>6, <3>1, <3>2, GoesOn
  <2>7. CASE ~ok
    <3>1. job'[w].at \in { "fail", "rb_mark_failed" }
      BY <2>1, <2>7, Leads
    <3>2. \A at \in { "fail", "rb_mark_failed" } :
            at \in DOMAIN ReachedAt /\ statusRank[ReachedAt[at]] \in 0 .. 4
      BY DEF ReachedAt, statusRank
    <3>3. statusRank["APPLYING"] = 5
      BY DEF statusRank
    <3>4. statusRank[ReachedAt[job'[w].at]] <= statusRank[status'[op]]
      BY <1>a, <2>3, <2>5, <3>1, <3>2, <3>3
    <3> QED
      BY <2>2, <2>5, <3>1, <3>2, <3>4, GoesOn
  <2> QED
    BY <2>6, <2>7
<1>9. CASE HealthCheck(w)
  <2>1. job[w].at = "check" /\ UNCHANGED status
    BY <1>9 DEF HealthCheck, At, storeVars
  <2>2. CASE PublishResult(op, "SUCCEEDED") /\ Return(w)
    <3>1. statusRank["HEALTH_CHECKING"] <= statusRank[status'[op]]
      BY <2>1 DEF ReachedAt
    <3>2. "SUCCEEDED" \in DOMAIN ReachedBy /\ ReachedBy["SUCCEEDED"] = "HEALTH_CHECKING"
      BY DEF ReachedBy
    <3> QED
      BY <1>b, <2>1, <2>2, <3>1, <3>2, GoesIdle
  <2>3. CASE UNCHANGED results /\ Failed(w)
    <3>1. job'[w].at \in { "fail", "rb_mark_failed" }
      BY <2>3, Leads
    <3> QED
      BY <1>c, <2>1, <2>3, <3>1 DEF ReachedAt, statusRank
  <2> QED
    BY <1>9, <2>2, <2>3 DEF HealthCheck
<1>10. CASE RollbackMarkFailed(w)
  <2>1. PICK ok \in BOOLEAN : AdvanceThenGet(op, "FAILED", ok)
    BY <1>10 DEF RollbackMarkFailed
  <2>2. job[w].at = "rb_mark_failed" /\ job'[w].at = "rb_mark" /\ PublishResult(op, "FAILED")
    BY <1>10, Leads DEF RollbackMarkFailed, At
  <2>3. statusRank["BACKUP_CREATED"] <= statusRank[status[op]]
    BY <2>2 DEF ReachedAt
  <2>4. << "BACKUP_CREATED", "FAILED" >> \in Writes /\ "FAILED" \notin Final
    BY DEF Writes, Final
  <2>5. /\ Along(status[op], status'[op])
        /\ statusRank[status[op]] <= statusRank[status'[op]]
        /\ status'[op] \notin Final
        /\ statusRank[status'[op]] \in Nat
    BY <1>d, <2>1, <2>3, <2>4
  <2>6. /\ "rb_mark" \in DOMAIN ReachedAt /\ statusRank[ReachedAt["rb_mark"]] = 4
        /\ "FAILED" \in DOMAIN ReachedBy \ Final /\ statusRank[ReachedBy["FAILED"]] = 2
        /\ statusRank["BACKUP_CREATED"] = 4
    BY DEF ReachedAt, ReachedBy, Final, statusRank
  <2>7. 4 <= statusRank[status'[op]] /\ 2 <= statusRank[status'[op]]
    BY <1>a, <2>3, <2>5, <2>6
  <2> QED
    BY <2>2, <2>5, <2>6, <2>7, GoesOn
<1>11. CASE RollbackMark(w)
  <2>1. PICK ok \in BOOLEAN :
          /\ AdvanceThenGet(op, "ROLLING_BACK", ok)
          /\ IF ok THEN PublishResult(op, "ROLLING_BACK") /\ Goto(w, "rb_restore")
                   ELSE UNCHANGED results /\ Return(w)
    BY <1>11 DEF RollbackMark
  <2>2. statusRank["BACKUP_CREATED"] <= statusRank[status[op]]
    BY <1>11 DEF RollbackMark, At, ReachedAt
  <2>3. << "BACKUP_CREATED", "ROLLING_BACK" >> \in Writes /\ "ROLLING_BACK" \notin Final
    BY DEF Writes, Final
  <2>4. /\ Along(status[op], status'[op])
        /\ ok => status'[op] = "ROLLING_BACK"
        /\ status'[op] \notin Final
        /\ statusRank[status'[op]] \in Nat
    BY <1>d, <2>1, <2>2, <2>3
  <2>5. CASE ok
    <3>1. job'[w].at = "rb_restore" /\ PublishResult(op, "ROLLING_BACK")
      BY <2>1, <2>5, Leads
    <3>2. /\ "rb_restore" \in DOMAIN ReachedAt /\ ReachedAt["rb_restore"] = "ROLLING_BACK"
          /\ "ROLLING_BACK" \in DOMAIN ReachedBy \ Final /\ ReachedBy["ROLLING_BACK"] = "ROLLING_BACK"
      BY DEF ReachedAt, ReachedBy, Final
    <3> QED
      BY <2>4, <2>5, <3>1, <3>2, GoesOn
  <2>6. CASE ~ok
    BY <2>1, <2>4, <2>6, GoesIdle
  <2> QED
    BY <2>5, <2>6
<1>12. CASE Restore(w)
  <2>1. job[w].at = "rb_restore" /\ UNCHANGED status /\ UNCHANGED results
    BY <1>12 DEF Restore, At, UnchangedShared, storeVars, busVars
  <2>2. job'[w].at \in { "rb_restart", "rb_give_up" }
    BY <1>12, Leads DEF Restore
  <2> QED
    BY <1>c, <2>1, <2>2 DEF ReachedAt, statusRank
<1>13. CASE RollbackRestart(w)
  <2>1. job[w].at = "rb_restart" /\ UNCHANGED status /\ UNCHANGED results
    BY <1>13 DEF RollbackRestart, At, UnchangedShared, storeVars, busVars
  <2>2. job'[w].at \in { "rb_mark_checking", "rb_give_up" }
    BY <1>13, Leads DEF RollbackRestart
  <2> QED
    BY <1>c, <2>1, <2>2 DEF ReachedAt, statusRank
<1>14. CASE RollbackMarkChecking(w)
  <2>1. PICK ok \in BOOLEAN : AdvanceThenGet(op, "ROLLBACK_HEALTH_CHECKING", ok)
    BY <1>14 DEF RollbackMarkChecking
  <2>2. /\ job[w].at = "rb_mark_checking" /\ job'[w].at = "rb_check"
        /\ PublishResult(op, "ROLLBACK_HEALTH_CHECKING")
    BY <1>14, Leads DEF RollbackMarkChecking, At
  <2>3. statusRank["ROLLING_BACK"] <= statusRank[status[op]]
    BY <2>2 DEF ReachedAt
  <2>4. << "ROLLING_BACK", "ROLLBACK_HEALTH_CHECKING" >> \in Writes
        /\ "ROLLBACK_HEALTH_CHECKING" \notin Final
    BY DEF Writes, Final
  <2>5. /\ Along(status[op], status'[op])
        /\ statusRank[status[op]] <= statusRank[status'[op]]
        /\ status'[op] \notin Final
        /\ statusRank[status'[op]] \in Nat
    BY <1>d, <2>1, <2>3, <2>4
  <2>6. /\ "rb_check" \in DOMAIN ReachedAt /\ ReachedAt["rb_check"] = "ROLLING_BACK"
        /\ "ROLLBACK_HEALTH_CHECKING" \in DOMAIN ReachedBy \ Final
        /\ ReachedBy["ROLLBACK_HEALTH_CHECKING"] = "ROLLING_BACK"
        /\ statusRank["ROLLING_BACK"] \in Nat
    BY DEF ReachedAt, ReachedBy, Final, statusRank
  <2>7. statusRank["ROLLING_BACK"] <= statusRank[status'[op]]
    BY <1>a, <2>3, <2>5, <2>6
  <2> QED
    BY <2>2, <2>5, <2>6, <2>7, GoesOn
<1>15. CASE RollbackHealthCheck(w)
  <2>1. job[w].at = "rb_check" /\ UNCHANGED status /\ UNCHANGED results
    BY <1>15 DEF RollbackHealthCheck, At, UnchangedShared, storeVars, busVars
  <2>2. job'[w].at \in { "rb_mark_done", "rb_give_up" }
    BY <1>15, Leads DEF RollbackHealthCheck
  <2> QED
    BY <1>c, <2>1, <2>2 DEF ReachedAt, statusRank
<1>16. CASE RollbackDone(w)
  <2>1. job[w].at = "rb_mark_done" /\ MarkAndReturn(w, "ROLLED_BACK")
    BY <1>16 DEF RollbackDone, At
  <2>2. statusRank["ROLLING_BACK"] <= statusRank[status[op]]
    BY <2>1 DEF ReachedAt
  <2>3. << "ROLLING_BACK", "ROLLED_BACK" >> \in Writes /\ "ROLLED_BACK" \in DOMAIN ReachedBy
        /\ statusRank[ReachedBy["ROLLED_BACK"]] <= statusRank["ROLLED_BACK"]
    BY DEF Writes, ReachedBy, statusRank
  <2> QED
    BY <2>1, <2>2, <2>3, MarkedIdle
<1>17. CASE RollbackFailed(w)
  <2>1. job[w].at = "rb_give_up" /\ MarkAndReturn(w, "ROLLBACK_FAILED")
    BY <1>17 DEF RollbackFailed, At
  <2>2. statusRank["ROLLING_BACK"] <= statusRank[status[op]]
    BY <2>1 DEF ReachedAt
  <2>3. << "ROLLING_BACK", "ROLLBACK_FAILED" >> \in Writes /\ "ROLLBACK_FAILED" \in DOMAIN ReachedBy
        /\ statusRank[ReachedBy["ROLLBACK_FAILED"]] <= statusRank["ROLLBACK_FAILED"]
    BY DEF Writes, ReachedBy, statusRank
  <2> QED
    BY <2>1, <2>2, <2>3, MarkedIdle
<1> QED
  BY <1>1, <1>2, <1>3, <1>4, <1>5, <1>6, <1>7, <1>8, <1>9, <1>10, <1>11, <1>12, <1>13, <1>14,
     <1>15, <1>16, <1>17 DEF JobStep

-----------------------------------------------------------------------------
(* The inductive invariant *)

\* What is held or reported has a rank.
LEMMA Ranked ==
  ASSUME NEW st \in Started
  PROVE  statusRank[st] \in Nat /\ st \in Status /\ st # Absent
  BY DEF Started, Status, statusRank, Absent

\* The ranks of started operations never fall.
LEMMA RanksRise ==
  ASSUME IndInv, [Next]_vars, NEW op \in Op, status[op] \in Started
  PROVE  status'[op] \in Started /\ statusRank[status[op]] <= statusRank[status'[op]]
<1>1. Forward(op) /\ status'[op] \in Started
  BY StepForward DEF IndInv, Shapes
<1> QED
  BY <1>1, Ranked DEF Forward

\* The bounds on what has been reached are statuses.
LEMMA ReachedRanked ==
  /\ \A at \in JobAt \ {"idle"} : statusRank[ReachedAt[at]] \in Nat
  /\ \A st \in DOMAIN ReachedBy : statusRank[ReachedBy[st]] \in Nat
  BY DEF ReachedAt, ReachedBy, JobAt, ExecuteAt, RollbackAt, statusRank

\* Nobody holds an operation and nothing is reported at first.
LEMMA LifecycleInvInit == Init => LifecycleInv
<1> SUFFICES ASSUME Init PROVE LifecycleInv
  OBVIOUS
<1>1. results = {} /\ \A w \in Worker : job[w].op = NoOp /\ job[w].at = "idle"
  BY DEF Init, BusInit, WorkerInit, IdleJob
<1> QED
  BY <1>1, IndInvInit, WorkerAssumption DEF LifecycleInv, JobsReached, ReportsReached, HeldUnfinished

\* A job moves its own operation only, and reports for no other.
LEMMA JobKeepsLifecycleInv ==
  ASSUME LifecycleInv, IndInv', NEW w \in Worker, JobStep(w), UNCHANGED entryVars
  PROVE  LifecycleInv'
<1>0. /\ Shapes /\ IndInv /\ status \in [Op -> Status \cup {Absent}] /\ results \subseteq Result
      /\ Next
  BY DEF LifecycleInv, IndInv, Shapes, TypeOK, StoreTypeOK, BusTypeOK, Next, WorkerStep
<1>1. JobMoves(w) /\ JobEffect(w)
  BY <1>0, JobStepMoves, JobStepEffect DEF Shapes, TypeOK, WorkerTypeOK
<1>2. /\ job[w].op \in Op
      /\ (job'[w].op = NoOp /\ job'[w].at = "idle") \/ job'[w].op = job[w].op
      /\ \A x \in Worker \ {w} : job'[x] = job[x]
  BY <1>0, <1>1, JobOperation
<1>3. \A x \in Worker \ {w} : job[x].op # job[w].op
  BY <1>2, WorkerAssumption DEF LifecycleInv, IndInv, SingleExecution
<1>4. \A op \in Op \ {job[w].op} : status'[op] = status[op]
  BY <1>0, <1>1 DEF JobEffect, AdvanceStatus
<1>5. JobsReached'
  <2> SUFFICES ASSUME NEW x \in Worker, job'[x].at # "idle"
               PROVE  statusRank[ReachedAt[job'[x].at]] <= statusRank[status'[job'[x].op]]
    BY DEF JobsReached
  <2>1. CASE x = w
    BY <1>1, <1>2, <2>1 DEF JobMoves
  <2>2. CASE x # w
    BY <1>2, <1>3, <1>4, <2>2 DEF LifecycleInv, IndInv, JobShape, JobsReached
  <2> QED
    BY <2>1, <2>2
<1>6. ReportsReached'
  <2> SUFFICES ASSUME NEW r \in results'
               PROVE  /\ r.status \in DOMAIN ReachedBy
                      /\ statusRank[ReachedBy[r.status]] <= statusRank[status'[r.op]]
    BY DEF ReportsReached
  <2>1. CASE r \in results
    <3>1. r.op \in Op /\ status[r.op] \in Started
      BY <1>0, <2>1 DEF LifecycleInv, IndInv, ReportedAreStarted, Result
    <3>2. /\ r.status \in DOMAIN ReachedBy
          /\ statusRank[ReachedBy[r.status]] <= statusRank[status[r.op]]
      BY <2>1 DEF LifecycleInv, ReportsReached
    <3>3. statusRank[status[r.op]] <= statusRank[status'[r.op]] /\ status'[r.op] \in Started
      BY <1>0, <3>1, RanksRise
    <3> QED
      BY <3>1, <3>2, <3>3, Ranked, ReachedRanked
  <2>2. CASE r \notin results
    BY <1>1, <2>2 DEF JobMoves
  <2> QED
    BY <2>1, <2>2
<1>7. HeldUnfinished'
  <2> SUFFICES ASSUME NEW x \in Worker, job'[x].op \in Op
               PROVE  /\ status'[job'[x].op] \notin Final
                      /\ \A r \in results' : r.op = job'[x].op => r.status \notin Final
    BY DEF HeldUnfinished
  <2>1. CASE x = w
    <3>1. job'[w].at # "idle" /\ job'[w].op = job[w].op
      BY <1>2, <2>1, WorkerAssumption DEF IndInv, JobShape
    <3> QED
      BY <1>1, <1>2, <2>1, <3>1 DEF JobMoves, LifecycleInv, HeldUnfinished
  <2>2. CASE x # w
    BY <1>1, <1>2, <1>3, <1>4, <2>2 DEF JobMoves, LifecycleInv, HeldUnfinished
  <2> QED
    BY <2>1, <2>2
<1> QED
  BY <1>5, <1>6, <1>7 DEF LifecycleInv

\* A claimed operation has been reported by nobody; it is RUNNING.
LEMMA ClaimKeepsLifecycleInv ==
  ASSUME LifecycleInv, IndInv', NEW w \in Worker, NEW cmd \in commands, HandleCommand(w, cmd)
  PROVE  LifecycleInv'
<1>0. Shapes /\ status \in [Op -> Status \cup {Absent}]
  BY DEF LifecycleInv, IndInv, Shapes, TypeOK, StoreTypeOK
<1>1. /\ cmd.op \in Op
      /\ status[cmd.op] = "DISPATCHED" /\ status' = [status EXCEPT ![cmd.op] = "RUNNING"]
      /\ UNCHANGED results \/ PublishResult(cmd.op, "RUNNING")
      /\ \/ job'[w].op = NoOp /\ job'[w].at = "idle"
         \/ job'[w].op = cmd.op /\ job'[w].at = "download"
      /\ \A x \in Worker \ {w} : job'[x] = job[x]
  BY <1>0, ClaimOperation
<1>2. /\ \A x \in Worker : job[x].op # cmd.op
      /\ \A r \in results : r.op # cmd.op
  BY <1>1 DEF LifecycleInv, IndInv, HeldAreStarted, ReportedAreStarted, Started
<1>3. status'[cmd.op] = "RUNNING" /\ \A op \in Op \ {cmd.op} : status'[op] = status[op]
  BY <1>0, <1>1
<1>4. JobsReached'
  <2> SUFFICES ASSUME NEW x \in Worker, job'[x].at # "idle"
               PROVE  statusRank[ReachedAt[job'[x].at]] <= statusRank[status'[job'[x].op]]
    BY DEF JobsReached
  <2>1. CASE x = w
    BY <1>1, <1>3, <2>1 DEF ReachedAt, statusRank
  <2>2. CASE x # w
    <3>1. job[x].op \in Op \ {cmd.op}
      BY <1>1, <1>2, <2>2 DEF LifecycleInv, IndInv, JobShape
    <3> QED
      BY <1>1, <1>3, <2>2, <3>1 DEF LifecycleInv, JobsReached
  <2> QED
    BY <2>1, <2>2
<1>5. ReportsReached'
  <2>1. \A r \in results : r.op \in Op
    BY DEF LifecycleInv, IndInv, TypeOK, BusTypeOK, Result
  <2> QED
    BY <1>1, <1>2, <1>3, <2>1 DEF LifecycleInv, ReportsReached, PublishResult, ReachedBy, statusRank
<1>6. HeldUnfinished'
  BY <1>1, <1>2, <1>3, WorkerAssumption DEF LifecycleInv, HeldUnfinished, PublishResult, Final
<1> QED
  BY <1>4, <1>5, <1>6 DEF LifecycleInv

\* The start or the end of a worker.
LEMMA ProcessKeepsLifecycleInv ==
  ASSUME LifecycleInv, IndInv', NEW w \in Worker, Start(w) \/ Crash(w)
  PROVE  LifecycleInv'
<1>1. /\ UNCHANGED << status, results >>
      /\ (job'[w].op = NoOp /\ job'[w].at = "idle") \/ job'[w] = job[w]
      /\ \A x \in Worker \ {w} : job'[x] = job[x]
  BY ProcessOperation DEF LifecycleInv, IndInv, Shapes
<1> QED
  BY <1>1, WorkerAssumption DEF LifecycleInv, JobsReached, ReportsReached, HeldUnfinished

\* Neither the entry nor a monitor ends an operation that is held.
LEMMA OthersKeepLifecycleInv ==
  ASSUME LifecycleInv, IndInv', [Next]_vars, UNCHANGED workerVars, UNCHANGED results,
         EntryStep \/ MonitorStep \/ UNCHANGED status
  PROVE  LifecycleInv'
<1>0. /\ Shapes /\ IndInv /\ status \in [Op -> Status \cup {Absent}] /\ results \subseteq Result
      /\ job \in [Worker -> Job]
  BY DEF LifecycleInv, IndInv, Shapes, TypeOK, StoreTypeOK, BusTypeOK, WorkerTypeOK
<1>1. UNCHANGED << job, results >>
  BY DEF workerVars
<1>2. JobsReached'
  <2> SUFFICES ASSUME NEW w \in Worker, job[w].at # "idle"
               PROVE  statusRank[ReachedAt[job[w].at]] <= statusRank[status'[job[w].op]]
    BY <1>1 DEF JobsReached
  <2>1. job[w].op \in Op /\ status[job[w].op] \in Started /\ job[w].at \in JobAt
    BY <1>0 DEF LifecycleInv, IndInv, JobShape, HeldAreStarted, Job
  <2>2. statusRank[status[job[w].op]] <= statusRank[status'[job[w].op]] /\ status'[job[w].op] \in Started
    BY <1>0, <2>1, RanksRise
  <2>3. statusRank[ReachedAt[job[w].at]] <= statusRank[status[job[w].op]]
    BY DEF LifecycleInv, JobsReached
  <2> QED
    BY <2>1, <2>2, <2>3, Ranked, ReachedRanked
<1>3. ReportsReached'
  <2> SUFFICES ASSUME NEW r \in results
               PROVE  /\ r.status \in DOMAIN ReachedBy
                      /\ statusRank[ReachedBy[r.status]] <= statusRank[status'[r.op]]
    BY <1>1 DEF ReportsReached
  <2>1. r.op \in Op /\ status[r.op] \in Started
    BY <1>0 DEF LifecycleInv, IndInv, ReportedAreStarted, Result
  <2>2. /\ r.status \in DOMAIN ReachedBy
        /\ statusRank[ReachedBy[r.status]] <= statusRank[status[r.op]]
    BY DEF LifecycleInv, ReportsReached
  <2>3. statusRank[status[r.op]] <= statusRank[status'[r.op]] /\ status'[r.op] \in Started
    BY <1>0, <2>1, RanksRise
  <2> QED
    BY <2>1, <2>2, <2>3, Ranked, ReachedRanked
<1>4. HeldUnfinished'
  <2> SUFFICES ASSUME NEW w \in Worker, job[w].op \in Op PROVE status'[job[w].op] \notin Final
    BY <1>1 DEF LifecycleInv, HeldUnfinished
  <2>1. status[job[w].op] \notin Final /\ \A r \in results : r.op = job[w].op => r.status \notin Final
    BY DEF LifecycleInv, HeldUnfinished
  <2>2. CASE EntryStep
    <3>1. ASSUME NEW o \in Op, CreateRow(o) PROVE status'[job[w].op] \notin Final
      BY <1>0, <2>1, <3>1 DEF CreateRow, Final
    <3>2. ASSUME NEW r \in results, AdvanceStatus(r.op, r.status) PROVE status'[job[w].op] \notin Final
      BY <1>0, <2>1, <3>2 DEF AdvanceStatus
    <3>3. ASSUME NEW o \in Op, AdvanceStatus(o, "DISPATCHED") PROVE status'[job[w].op] \notin Final
      BY <1>0, <2>1, <3>3 DEF AdvanceStatus, Final
    <3> QED
      BY <2>1, <2>2, <3>1, <3>2, <3>3, EntryStepEffect DEF EntryEffect
  <2>3. CASE MonitorStep
    BY <1>0, <2>1, <2>3 DEF MonitorStep, Reap, Final
  <2> QED
    BY <2>1, <2>2, <2>3
<1> QED
  BY <1>2, <1>3, <1>4 DEF LifecycleInv

\* LifecycleInv is inductive.
LEMMA LifecycleInvStep == LifecycleInv /\ [Next]_vars => LifecycleInv'
<1> SUFFICES ASSUME LifecycleInv, [Next]_vars PROVE LifecycleInv'
  OBVIOUS
<1>0. IndInv'
  BY IndInvStep DEF LifecycleInv
<1>1. CASE EntryStep /\ UNCHANGED workerVars
  BY <1>0, <1>1, EntryStepEffect, OthersKeepLifecycleInv DEF EntryEffect
<1>2. ASSUME NEW w \in Worker, WorkerStep(w), UNCHANGED entryVars PROVE LifecycleInv'
  BY <1>0, <1>2, JobKeepsLifecycleInv, ClaimKeepsLifecycleInv, ProcessKeepsLifecycleInv DEF WorkerStep
<1>3. CASE MonitorStep /\ UNCHANGED << busVars, entryVars, workerVars >>
  BY <1>0, <1>3, OthersKeepLifecycleInv DEF busVars
<1>4. CASE UNCHANGED vars
  BY <1>0, <1>4, OthersKeepLifecycleInv DEF vars, busVars, storeVars
<1> QED
  BY <1>1, <1>2, <1>3, <1>4 DEF Next

\* LifecycleInv holds of every reachable state.
LEMMA LifecycleInvHolds == Spec => []LifecycleInv
  BY LifecycleInvInit, LifecycleInvStep, PTL DEF Spec

-----------------------------------------------------------------------------
(* Refinement *)

\* A result that the store accepts moves the operation along an edge.
LEMMA ReportAlongEdge ==
  ASSUME NEW cur \in Started, NEW st \in DOMAIN ReachedBy,
         statusRank[ReachedBy[st]] <= statusRank[cur], CanAdvance(cur, st)
  PROVE  Along(cur, st)
<1> USE DEF Along, Lifecycle!Edges, Started, Status, CanAdvance, statusRank, ReachedBy
<1>1. CASE st \in { "RUNNING", "ROLLING_BACK", "ROLLED_BACK", "ROLLBACK_FAILED" }
  BY <1>1
<1>2. CASE st = "TRANSFERRED"
  BY <1>2
<1>3. CASE st = "FAILED"
  BY <1>3
<1>4. CASE st = "SUCCEEDED"
  BY <1>4
<1>5. CASE st = "ROLLBACK_HEALTH_CHECKING"
  BY <1>5
<1> QED
  BY <1>1, <1>2, <1>3, <1>4, <1>5

\* Every step moves every operation along an edge, or not at all.
LEMMA StepAlongEdges ==
  ASSUME LifecycleInv, [Next]_vars, NEW op \in Op
  PROVE  Along(status[op], status'[op])
<1>0. /\ Shapes /\ status \in [Op -> Status \cup {Absent}] /\ results \subseteq Result
  BY DEF LifecycleInv, IndInv, Shapes, TypeOK, StoreTypeOK, BusTypeOK
<1>1. ASSUME status'[op] = status[op] PROVE Along(status[op], status'[op])
  BY <1>1 DEF Along
<1>2. CASE EntryStep
  <2>1. ASSUME NEW o \in Op, CreateRow(o) PROVE Along(status[op], status'[op])
    BY <1>0, <2>1 DEF CreateRow, Along, Lifecycle!Edges, Absent
  <2>2. ASSUME NEW r \in results, AdvanceStatus(r.op, r.status) PROVE Along(status[op], status'[op])
    <3>1. CASE op = r.op
      <4>1. /\ status[op] \in Started /\ r.status \in DOMAIN ReachedBy
            /\ statusRank[ReachedBy[r.status]] <= statusRank[status[op]]
        BY <3>1 DEF LifecycleInv, IndInv, ReportedAreStarted, ReportsReached
      <4>2. CanAdvance(status[op], r.status) /\ status'[op] = r.status
        BY <1>0, <2>2, <3>1 DEF AdvanceStatus
      <4> QED
        BY <4>1, <4>2, ReportAlongEdge
    <3>2. CASE op # r.op
      BY <1>0, <1>1, <2>2, <3>2 DEF AdvanceStatus
    <3> QED
      BY <3>1, <3>2
  <2>3. ASSUME NEW o \in Op, AdvanceStatus(o, "DISPATCHED") PROVE Along(status[op], status'[op])
    <3>1. CASE op = o
      <4>1. status'[op] = "DISPATCHED" /\ CanAdvance(status[op], "DISPATCHED")
        BY <1>0, <2>3, <3>1 DEF AdvanceStatus
      <4>2. status[op] = "PENDING"
        BY <4>1 DEF CanAdvance, Status, statusRank
      <4> QED
        BY <4>1, <4>2 DEF Along, Lifecycle!Edges
    <3>2. CASE op # o
      BY <1>0, <1>1, <2>3, <3>2 DEF AdvanceStatus
    <3> QED
      BY <3>1, <3>2
  <2> QED
    BY <1>1, <1>2, <2>1, <2>2, <2>3, EntryStepEffect DEF EntryEffect
<1>3. ASSUME NEW w \in Worker, WorkerStep(w) PROVE Along(status[op], status'[op])
  <2>1. CASE Start(w) \/ Crash(w)
    BY <1>1, <2>1 DEF Start, Crash, UnchangedShared, storeVars
  <2>2. ASSUME NEW cmd \in commands, HandleCommand(w, cmd) PROVE Along(status[op], status'[op])
    BY <1>0, <1>1, <2>2 DEF HandleCommand, ClaimForExecution, Along, Lifecycle!Edges
  <2>3. CASE JobStep(w)
    <3>1. JobMoves(w) /\ JobEffect(w)
      BY <1>0, <2>3, JobStepMoves, JobStepEffect DEF Shapes, TypeOK, WorkerTypeOK
    <3>2. CASE op = job[w].op
      BY <3>1, <3>2 DEF JobMoves
    <3>3. CASE op # job[w].op
      BY <1>0, <1>1, <3>1, <3>3 DEF JobEffect, AdvanceStatus
    <3> QED
      BY <3>2, <3>3
  <2> QED
    BY <1>3, <2>1, <2>2, <2>3 DEF WorkerStep
<1>4. CASE MonitorStep
  BY <1>0, <1>1, <1>4 DEF MonitorStep, Reap, Reapable, Along, Lifecycle!Edges
<1>5. CASE UNCHANGED vars
  BY <1>1, <1>5 DEF vars, storeVars
<1> QED
  BY <1>2, <1>3, <1>4, <1>5 DEF Next

\* The statuses a client polls follow the documented state machine: UpdateFlow
\* implements OperationLifecycle.
THEOREM ImplementsLifecycle == Spec => FollowsLifecycle
<1>1. Init => Lifecycle!Init
  BY DEF Init, StoreInit, Lifecycle!Init, Absent, Lifecycle!Absent
<1>2. LifecycleInv /\ [Next]_vars => [Lifecycle!Next]_status
  <2> SUFFICES ASSUME LifecycleInv, [Next]_vars PROVE Lifecycle!Next
    OBVIOUS
  <2> DEFINE changed == { op \in Op : status'[op] # status[op] }
  <2>1. \A op \in changed : status'[op] \in Lifecycle!Edges[status[op]]
    BY StepAlongEdges DEF Along
  <2>2. DOMAIN status' = Op
    BY ShapesStep DEF LifecycleInv, IndInv, Shapes, TypeOK, StoreTypeOK
  <2>3. changed \in SUBSET Op /\ \A op \in Op \ changed : status'[op] = status[op]
    OBVIOUS
  <2> HIDE DEF changed
  <2> QED
    BY <2>1, <2>2, <2>3 DEF Lifecycle!Next
<1> QED
  BY <1>1, <1>2, LifecycleInvHolds, PTL DEF Spec, FollowsLifecycle, Lifecycle!Spec

-----------------------------------------------------------------------------
(* Refused dispatches *)

\* Only the hook of an upload dispatches, and only the hook that has inserted
\* the file row of the operation gets as far as that.
LEMMA EntryKeepsUndispatched ==
  ASSUME IndInv, EntryStep, NEW op \in Op, Undispatched(op)
  PROVE  Undispatched(op)'
<1>0. /\ status \in [Op -> Status \cup {Absent}] /\ file \in [Op -> Upload \cup {NoUpload}]
      /\ upload \in [Upload -> [at : UploadAt, instance : Instance \cup {NotOnline}]]
      /\ status[op] = "PENDING" /\ file[op] # NoUpload
      /\ \A u \in Upload : UploadOp[u] = op => upload[u].at \notin { "stored", "located" }
  BY DEF IndInv, TypeOK, StoreTypeOK, EntryTypeOK, Undispatched
<1> USE <1>0 DEF Undispatched, UploadGoto, UploadOver, storeVars, entryVars
<1>1. ASSUME NEW o \in Op, CreateUpdate(o) PROVE Undispatched(op)'
  BY <1>1 DEF CreateUpdate, CreateRow, Absent
<1>2. ASSUME NEW r \in results, HandleResult(r) PROVE Undispatched(op)'
  <2>1. r.op # op
    BY DEF IndInv, ReportedAreStarted, Started
  <2> QED
    BY <1>2, <2>1 DEF HandleResult, AdvanceStatus
<1>3. ASSUME NEW u \in Upload, UploadCreate(u) \/ PublishCommand(u) \/ UploadAborted(u)
      PROVE  Undispatched(op)'
  BY <1>3 DEF UploadCreate, PublishCommand, UploadAborted
<1>4. ASSUME NEW u \in Upload, UploadFinish(u) PROVE Undispatched(op)'
  <2>1. CASE SaveFile(u)
    <3>1. UploadOp[u] # op /\ UploadOp[u] \in Op
      BY <2>1, StoreAssumption DEF SaveFile
    <3> QED
      BY <1>4, <2>1, <3>1 DEF UploadFinish, SaveFile
  <2>2. CASE UNCHANGED file /\ UploadOver(u)
    BY <1>4, <2>2 DEF UploadFinish
  <2> QED
    BY <1>4, <2>1, <2>2 DEF UploadFinish
<1>5. ASSUME NEW u \in Upload, LocateNode(u) PROVE Undispatched(op)'
  <2>1. UploadOp[u] # op
    BY <1>5 DEF LocateNode
  <2> QED
    BY <1>5, <2>1 DEF LocateNode
<1>6. ASSUME NEW u \in Upload, MarkDispatched(u) PROVE Undispatched(op)'
  <2>1. UploadOp[u] # op
    BY <1>6 DEF MarkDispatched
  <2> QED
    BY <1>6, <2>1, AdvanceOutcome DEF MarkDispatched, AdvanceStatus
<1>7. ASSUME NEW n \in Node, NEW i, NodeUnavailable(n) \/ RegisterNode(n, i)
      PROVE  Undispatched(op)'
  BY <1>7 DEF NodeUnavailable, RegisterNode
<1> QED
  BY <1>1, <1>2, <1>3, <1>4, <1>5, <1>6, <1>7, WorkerAssumption DEF EntryStep

\* An operation nobody is about to dispatch is never dispatched.
THEOREM RefusedForGood == Spec => RefusedStaysRefused
<1>1. IndInv /\ [Next]_vars =>
        [\A op \in Op : Undispatched(op) => Undispatched(op)']_vars
  <2> SUFFICES ASSUME IndInv, [Next]_vars, NEW op \in Op, Undispatched(op)
               PROVE  Undispatched(op)'
    OBVIOUS
  <2>0. /\ Shapes /\ status \in [Op -> Status \cup {Absent}]
        /\ status[op] = "PENDING" /\ file'[op] # NoUpload
    BY FileWrittenOnce DEF IndInv, Shapes, TypeOK, StoreTypeOK, Undispatched
  <2>1. ASSUME UNCHANGED upload, status'[op] = status[op] PROVE Undispatched(op)'
    BY <2>0, <2>1 DEF Undispatched
  <2>2. CASE EntryStep
    BY <2>2, EntryKeepsUndispatched
  <2>3. ASSUME NEW w \in Worker, WorkerStep(w), UNCHANGED entryVars PROVE Undispatched(op)'
    <3>1. CASE Start(w) \/ Crash(w)
      BY <2>1, <2>3, <3>1 DEF Start, Crash, UnchangedShared, storeVars, entryVars
    <3>2. ASSUME NEW cmd \in commands, HandleCommand(w, cmd) PROVE Undispatched(op)'
      BY <2>0, <2>1, <2>3, <3>2 DEF HandleCommand, ClaimForExecution, entryVars
    <3>3. CASE JobStep(w)
      <4>1. JobEffect(w) /\ job[w].op \in Op
        BY <2>0, <3>3, JobStepEffect, JobOperation DEF Shapes, TypeOK, WorkerTypeOK
      <4>2. job[w].op # op
        BY <2>0, <4>1 DEF IndInv, HeldAreStarted, Started
      <4> QED
        BY <2>0, <2>1, <2>3, <4>1, <4>2 DEF JobEffect, AdvanceStatus, entryVars
    <3> QED
      BY <2>3, <3>1, <3>2, <3>3 DEF WorkerStep
  <2>4. CASE MonitorStep /\ UNCHANGED << busVars, entryVars, workerVars >>
    BY <2>0, <2>1, <2>4 DEF MonitorStep, Reap, Reapable, entryVars
  <2>5. CASE UNCHANGED vars
    BY <2>1, <2>5 DEF vars, storeVars, entryVars
  <2> QED
    BY <2>2, <2>3, <2>4, <2>5 DEF Next
<1> QED
  BY <1>1, IndInvHolds, PTL DEF Spec, RefusedStaysRefused

-----------------------------------------------------------------------------
(* Operations nobody would finish *)

\* Where a job stands tells what it may write: a status of a rollback only once
\* it has begun one, and then it does not go back.
LEMMA WritesOfPosition ==
  ASSUME job \in [Worker -> Job], NEW w \in Worker, JobStep(w)
  PROVE  \/ /\ job[w].at \notin RollbackBegun
            /\ \/ UNCHANGED status
               \/ \E st \in Status \ RollingBack : AdvanceStatus(job[w].op, st)
         \/ job[w].at = "rb_mark" /\ job'[w].at \in { "idle", "rb_restore" }
         \/ job[w].at \in RollbackBegun /\ job'[w].at \in RollbackBegun \cup {"idle"}
<1> DEFINE Writing == /\ job[w].at \notin RollbackBegun
                      /\ \/ UNCHANGED status
                         \/ \E st \in Status \ RollingBack : AdvanceStatus(job[w].op, st)
           Rolling == job[w].at \in RollbackBegun /\ job'[w].at \in RollbackBegun \cup {"idle"}
<1>a. { "FAILED", "BACKUP_CREATED", "APPLYING", "HEALTH_CHECKING" } \subseteq Status \ RollingBack
  BY DEF Status, RollingBack
<1>b. RollbackBegun = { "rb_restore", "rb_restart", "rb_mark_checking", "rb_check", "rb_mark_done",
                        "rb_give_up" }
  BY DEF RollbackBegun, RollbackAt
<1>c. Return(w) => job'[w].at = "idle"
  BY DEF Return, IdleJob
<1>1. CASE Download(w) \/ Backup(w) \/ Apply(w) \/ Restart(w) \/ HealthCheck(w)
  BY <1>1, <1>b DEF Download, Backup, Apply, Restart, HealthCheck, At, UnchangedShared, storeVars
<1>2. CASE FailOperation(w)
  BY <1>2, <1>a, <1>b, AdvanceOutcome DEF FailOperation, MarkAndReturn, At
<1>3. CASE MarkBackup(w)
  BY <1>3, <1>a, <1>b, AdvanceOutcome DEF MarkBackup, At
<1>4. CASE MarkApplying(w)
  BY <1>4, <1>a, <1>b, AdvanceOutcome DEF MarkApplying, At
<1>5. CASE MarkChecking(w)
  BY <1>5, <1>a, <1>b, AdvanceOutcome DEF MarkChecking, At
<1>6. CASE RollbackMarkFailed(w)
  BY <1>6, <1>a, <1>b, AdvanceOutcome DEF RollbackMarkFailed, At
<1>7. CASE RollbackMark(w)
  BY <1>7, <1>c, Leads DEF RollbackMark, At
<1>8. CASE Restore(w) \/ RollbackRestart(w)
  BY <1>8, <1>b, Leads DEF Restore, RollbackRestart, At
<1>9. CASE RollbackMarkChecking(w) \/ RollbackHealthCheck(w)
  BY <1>9, <1>b, Leads DEF RollbackMarkChecking, RollbackHealthCheck, At
<1>10. CASE RollbackDone(w) \/ RollbackFailed(w)
  BY <1>10, <1>b, <1>c DEF RollbackDone, RollbackFailed, MarkAndReturn, At
<1> QED
  BY <1>1, <1>2, <1>3, <1>4, <1>5, <1>6, <1>7, <1>8, <1>9, <1>10 DEF JobStep

\* The last write of a job takes effect, or the store is past it.
LEMMA LastWrite ==
  ASSUME ~CallsMayFail, status \in [Op -> Status \cup {Absent}], NEW op \in Op, NEW st,
         NEW ok \in BOOLEAN, AdvanceThenGet(op, st, ok)
  PROVE  /\ status'[op] = st \/ (status'[op] = status[op] /\ ~CanAdvance(status[op], st))
         /\ ok => status'[op] = st
  BY DEF AdvanceThenGet, AdvanceStatus

\* A job that ends leaves its operation in a status that somebody finishes, or
\* that is the end.
LEMMA JobLeavesNothing ==
  ASSUME ~CallsMayFail, LifecycleInv, RollbacksByJob, NEW w \in Worker, JobStep(w),
         job'[w].at = "idle"
  PROVE  status'[job[w].op] \notin Wedged
<1> DEFINE op == job[w].op
<1>0. /\ job \in [Worker -> Job] /\ status \in [Op -> Status \cup {Absent}]
      /\ job[w].at # "idle" /\ op \in Op /\ status[op] \in Started \ Final
      /\ statusRank[ReachedAt[job[w].at]] <= statusRank[status[op]]
      /\ job[w].at \notin RollbackBegun => status[op] \notin RollingBack
  <2>1. job \in [Worker -> Job] /\ status \in [Op -> Status \cup {Absent}]
    BY DEF LifecycleInv, IndInv, TypeOK, StoreTypeOK, WorkerTypeOK
  <2>2. job[w].at # "idle"
    BY <2>1, JobStepEffect DEF JobEffect
  <2>3. op \in Op
    BY <2>2 DEF LifecycleInv, IndInv, JobShape
  <2> QED
    BY <2>1, <2>2, <2>3 DEF LifecycleInv, IndInv, HeldAreStarted, HeldUnfinished, JobsReached,
       RollbacksByJob
<1>b. RollbackBegun = { "rb_restore", "rb_restart", "rb_mark_checking", "rb_check", "rb_mark_done",
                        "rb_give_up" }
  BY DEF RollbackBegun, RollbackAt
\* What the store can hold that refuses the last write of a job.
<1>c. ASSUME NEW st \in { "FAILED", "ROLLED_BACK", "ROLLBACK_FAILED" }, MarkAndReturn(w, st),
             st = "FAILED" => job[w].at \notin RollbackBegun
      PROVE  status'[op] \notin Wedged
  <2>1. status'[op] = st \/ (status'[op] = status[op] /\ ~CanAdvance(status[op], st))
    BY <1>0, <1>c, LastWrite DEF MarkAndReturn
  <2>2. st \notin Wedged
    BY <1>c DEF Wedged
  <2>3. ~CanAdvance(status[op], st) => status[op] \notin Wedged
    BY <1>0, <1>c DEF CanAdvance, Wedged, RollingBack, Status, statusRank
  <2> QED
    BY <2>1, <2>2, <2>3
<1>1. CASE Download(w)
  BY <1>0, <1>1, Leads DEF Download
<1>2. CASE FailOperation(w)
  BY <1>2, <1>b, <1>c DEF FailOperation, At
<1>3. CASE MarkBackup(w) \/ Backup(w)
  BY <1>0, <1>3, Leads DEF MarkBackup, Backup, Job
<1>4. CASE MarkApplying(w) \/ Apply(w) \/ Restart(w) \/ MarkChecking(w)
  BY <1>0, <1>4, Leads DEF MarkApplying, Apply, Restart, MarkChecking
<1>5. CASE HealthCheck(w)
  <2>1. UNCHANGED status /\ job[w].at = "check"
    BY <1>5 DEF HealthCheck, At, storeVars
  <2>2. status[op] \notin RollingBack /\ statusRank["HEALTH_CHECKING"] <= statusRank[status[op]]
    BY <1>0, <1>b, <2>1 DEF ReachedAt
  <2> QED
    BY <2>1, <2>2 DEF Wedged, RollingBack, statusRank
<1>6. CASE RollbackMarkFailed(w) \/ RollbackMarkChecking(w) \/ RollbackHealthCheck(w)
  BY <1>0, <1>6, Leads DEF RollbackMarkFailed, RollbackMarkChecking, RollbackHealthCheck
<1>7. CASE RollbackMark(w)
  <2>1. PICK ok \in BOOLEAN : /\ AdvanceThenGet(op, "ROLLING_BACK", ok)
                              /\ ok => Goto(w, "rb_restore")
    BY <1>7 DEF RollbackMark
  <2>2. ~ok
    BY <1>0, <2>1, Leads
  <2>3. job[w].at = "rb_mark" /\ status[op] \notin RollingBack
    BY <1>0, <1>7, <1>b DEF RollbackMark, At
  <2>4. status[op] \in Started \ Final /\ CanAdvance(status[op], "ROLLING_BACK")
    BY <1>0, <2>3 DEF Started, Final, RollingBack, CanAdvance, Status, statusRank
  <2>5. ok
    BY <2>1, <2>4 DEF AdvanceThenGet
  <2> QED
    BY <2>2, <2>5
<1>8. CASE Restore(w) \/ RollbackRestart(w)
  BY <1>0, <1>8, Leads DEF Restore, RollbackRestart
<1>9. CASE RollbackDone(w)
  BY <1>9, <1>c DEF RollbackDone
<1>10. CASE RollbackFailed(w)
  BY <1>10, <1>c DEF RollbackFailed
<1> QED
  BY <1>1, <1>2, <1>3, <1>4, <1>5, <1>6, <1>7, <1>8, <1>9, <1>10 DEF JobStep

\* Neither the entry nor a monitor puts an operation into a status of a rollback,
\* or into one the monitor skips, that was not in one already.
LEMMA OthersWedgeNothing ==
  ASSUME LifecycleInv, [Next]_vars, EntryStep \/ MonitorStep \/ UNCHANGED status, NEW op \in Op
  PROVE  /\ status'[op] \in RollingBack => status[op] \in RollingBack
         /\ status'[op] \in Wedged => status[op] \in Wedged
<1>0. status \in [Op -> Status \cup {Absent}] /\ results \subseteq Result
  BY DEF LifecycleInv, IndInv, TypeOK, StoreTypeOK, BusTypeOK
<1> DEFINE Fits == /\ status'[op] \in RollingBack => status[op] \in RollingBack
                   /\ status'[op] \in Wedged => status[op] \in Wedged
<1>1. ASSUME status'[op] = status[op] PROVE Fits
  BY <1>1
<1>2. ASSUME status'[op] \in Status \ (RollingBack \cup Wedged) PROVE Fits
  BY <1>2
<1>3. ASSUME NEW o \in Op, CreateRow(o) \/ AdvanceStatus(o, "DISPATCHED") PROVE Fits
  BY <1>0, <1>3 DEF CreateRow, AdvanceStatus, RollingBack, Wedged
<1>4. ASSUME NEW r \in results, AdvanceStatus(r.op, r.status) PROVE Fits
  <2>1. CASE op = r.op
    <3>1. /\ status[op] \in Started /\ r.status \in DOMAIN ReachedBy
          /\ statusRank[ReachedBy[r.status]] <= statusRank[status[op]]
      BY <2>1 DEF LifecycleInv, IndInv, ReportedAreStarted, ReportsReached
    <3>2. CanAdvance(status[op], r.status) /\ status'[op] = r.status
      BY <1>0, <1>4, <2>1 DEF AdvanceStatus
    <3>3. r.status \in RollingBack => status[op] \in RollingBack
      BY <3>1, <3>2 DEF RollingBack, ReachedBy, CanAdvance, Started, Status, statusRank
    <3>4. r.status \in Wedged => r.status \in RollingBack
      BY <3>1 DEF Wedged, RollingBack, ReachedBy
    <3>5. RollingBack \subseteq Wedged
      BY DEF Wedged, RollingBack
    <3> QED
      BY <3>2, <3>3, <3>4, <3>5
  <2>2. CASE op # r.op
    BY <1>0, <1>1, <1>4, <2>2 DEF AdvanceStatus
  <2> QED
    BY <2>1, <2>2
<1>5. CASE EntryStep
  BY <1>1, <1>3, <1>4, <1>5, EntryStepEffect DEF EntryEffect
<1>6. CASE MonitorStep
  <2>1. status'[op] \in { status[op], "FAILED" }
    BY <1>0, <1>6 DEF MonitorStep, Reap
  <2> QED
    BY <2>1 DEF RollingBack, Wedged
<1> QED
  BY <1>1, <1>5, <1>6

\* A job keeps hold of what only it would finish.
LEMMA JobKeepsHeldInv ==
  ASSUME ~CallsMayFail, HeldInv, LifecycleInv', NEW w \in Worker, JobStep(w), UNCHANGED entryVars
  PROVE  HeldInv'
<1>0. /\ LifecycleInv /\ Shapes /\ status \in [Op -> Status \cup {Absent}]
      /\ job \in [Worker -> Job] /\ \A x \in Worker : job[x].op \in Op \cup {NoOp}
  BY DEF HeldInv, LifecycleInv, IndInv, Shapes, TypeOK, StoreTypeOK, WorkerTypeOK, Job
<1>1. JobEffect(w) /\ UNCHANGED life
  BY <1>0, JobStepEffect DEF JobEffect
<1>2. /\ job[w].op \in Op
      /\ (job'[w].op = NoOp /\ job'[w].at = "idle") \/ job'[w].op = job[w].op
      /\ \A x \in Worker \ {w} : job'[x] = job[x]
  BY <1>0, <1>1, JobOperation
<1>3. \A x \in Worker \ {w} : job[x].op # job[w].op
  BY <1>2, WorkerAssumption DEF HeldInv, LifecycleInv, IndInv, SingleExecution
<1>4. \A op \in Op \ {job[w].op} : status'[op] = status[op]
  BY <1>0, <1>1 DEF JobEffect, AdvanceStatus
<1>5. job'[w].op \in Op => job'[w].at # "idle"
  <2>1. job' \in [Worker -> Job] /\ (job'[w].at = "idle" => job'[w].op = NoOp)
    BY DEF LifecycleInv, IndInv, TypeOK, WorkerTypeOK, JobShape
  <2> QED
    BY <2>1, WorkerAssumption
<1>6. JobsRun'
  BY <1>1, <1>2 DEF HeldInv, JobsRun
<1>7. RollbacksByJob'
  <2> SUFFICES ASSUME NEW x \in Worker, job'[x].op \in Op, job'[x].at \notin RollbackBegun
               PROVE  status'[job'[x].op] \notin RollingBack
    BY DEF RollbacksByJob
  <2>1. CASE x # w
    BY <1>2, <1>3, <1>4, <2>1 DEF HeldInv, RollbacksByJob
  <2>2. CASE x = w
    <3>1. job'[w].op = job[w].op /\ job'[w].at # "idle" /\ job'[w].at # "rb_restore"
      <4>1. "rb_restore" \in RollbackBegun
        BY DEF RollbackBegun, RollbackAt
      <4> QED
        BY <1>2, <1>5, <2>2, <4>1, WorkerAssumption
    <3>2. /\ job[w].at \notin RollbackBegun
          /\ \/ UNCHANGED status
             \/ \E st \in Status \ RollingBack : AdvanceStatus(job[w].op, st)
      BY <1>0, <2>2, <3>1, WritesOfPosition
    <3>3. status[job[w].op] \notin RollingBack
      BY <1>2, <3>2 DEF HeldInv, RollbacksByJob
    <3> QED
      BY <1>0, <1>2, <2>2, <3>1, <3>2, <3>3 DEF AdvanceStatus
  <2> QED
    BY <2>1, <2>2
<1>8. WedgedIsHeld'
  <2> SUFFICES ASSUME NEW op \in Op, status'[op] \in Wedged
               PROVE  \E x \in Worker : life'[x] = "up" /\ job'[x].op = op
    BY DEF WedgedIsHeld, Holds
  <2>1. CASE op = job[w].op
    <3>1. job'[w].at # "idle"
      BY <1>0, <2>1, JobLeavesNothing DEF HeldInv
    <3>2. job'[w].op = op /\ life'[w] = "up"
      BY <1>1, <1>2, <2>1, <3>1 DEF HeldInv, JobsRun
    <3> QED
      BY <3>2
  <2>2. CASE op # job[w].op
    <3>1. PICK x \in Worker : life[x] = "up" /\ job[x].op = op
      BY <1>4, <2>2 DEF HeldInv, WedgedIsHeld, Holds
    <3>2. life'[x] = "up" /\ job'[x].op = op
      BY <1>1, <1>2, <2>2, <3>1
    <3> QED
      BY <3>2
  <2> QED
    BY <2>1, <2>2
<1> QED
  BY <1>6, <1>7, <1>8 DEF HeldInv

\* A claimed operation is RUNNING, and an idle worker held none before it.
LEMMA ClaimKeepsHeldInv ==
  ASSUME HeldInv, LifecycleInv', NEW w \in Worker, NEW cmd \in commands, HandleCommand(w, cmd)
  PROVE  HeldInv'
<1>0. /\ LifecycleInv /\ Shapes /\ status \in [Op -> Status \cup {Absent}]
  BY DEF HeldInv, LifecycleInv, IndInv, Shapes, TypeOK, StoreTypeOK
<1>1. /\ cmd.op \in Op
      /\ status[cmd.op] = "DISPATCHED" /\ status' = [status EXCEPT ![cmd.op] = "RUNNING"]
      /\ \/ job'[w].op = NoOp /\ job'[w].at = "idle"
         \/ job'[w].op = cmd.op /\ job'[w].at = "download"
      /\ \A x \in Worker \ {w} : job'[x] = job[x]
  BY <1>0, ClaimOperation
<1>2. UNCHANGED life /\ life[w] = "up" /\ job[w].op = NoOp
  BY <1>0 DEF HandleCommand, UnchangedHost, At, Shapes, JobShape
<1>3. status'[cmd.op] = "RUNNING" /\ \A op \in Op \ {cmd.op} : status'[op] = status[op]
  BY <1>0, <1>1
<1>4. "RUNNING" \notin RollingBack /\ "RUNNING" \notin Wedged
  BY DEF RollingBack, Wedged
<1>5. JobsRun'
  BY <1>1, <1>2, WorkerAssumption DEF HeldInv, JobsRun
<1>6. RollbacksByJob'
  BY <1>1, <1>3, <1>4, WorkerAssumption DEF HeldInv, RollbacksByJob
<1>7. WedgedIsHeld'
  <2> SUFFICES ASSUME NEW op \in Op, status'[op] \in Wedged
               PROVE  \E x \in Worker : life'[x] = "up" /\ job'[x].op = op
    BY DEF WedgedIsHeld, Holds
  <2>1. PICK x \in Worker : life[x] = "up" /\ job[x].op = op
    BY <1>3, <1>4 DEF HeldInv, WedgedIsHeld, Holds
  <2>2. x # w
    BY <1>2, <2>1, WorkerAssumption
  <2> QED
    BY <1>1, <1>2, <2>1, <2>2
<1> QED
  BY <1>5, <1>6, <1>7 DEF HeldInv

\* HeldInv is inductive where no call fails and no process dies.
LEMMA HeldInvStep ==
  ASSUME ~CallsMayFail, Mortal = {}, HeldInv, [Next]_vars
  PROVE  HeldInv'
<1>0. LifecycleInv /\ LifecycleInv'
  BY LifecycleInvStep DEF HeldInv
<1>1. ASSUME UNCHANGED workerVars, EntryStep \/ MonitorStep \/ UNCHANGED status PROVE HeldInv'
  BY <1>0, <1>1, OthersWedgeNothing DEF HeldInv, RollbacksByJob, JobsRun, WedgedIsHeld, Holds, workerVars
<1>2. ASSUME NEW w \in Worker, WorkerStep(w), UNCHANGED entryVars PROVE HeldInv'
  <2>1. CASE Start(w)
    <3>1. UNCHANGED << status, job >> /\ \A x \in Worker : life[x] = "up" => life'[x] = "up"
      BY <1>0, <2>1 DEF Start, UnchangedShared, storeVars, LifecycleInv, IndInv, TypeOK, WorkerTypeOK
    <3> QED
      BY <1>0, <3>1 DEF HeldInv, RollbacksByJob, JobsRun, WedgedIsHeld, Holds
  <2>2. ~Crash(w)
    BY DEF Crash
  <2> QED
    BY <1>0, <1>2, <2>1, <2>2, JobKeepsHeldInv, ClaimKeepsHeldInv DEF WorkerStep
<1> QED
  BY <1>1, <1>2 DEF Next, vars, storeVars, HeldInv

\* Where no process dies and no call to MariaDB or NATS fails, every operation in
\* a status the monitor skips is held by a running worker, for any number of
\* workers, monitors and replicas and however late results come: what keeps
\* such an operation from being left for ever.
THEOREM WedgedHeld ==
  ASSUME ~CallsMayFail, Mortal = {}
  PROVE  Spec => []WedgedIsHeld
<1>1. Init => HeldInv
  <2> SUFFICES ASSUME Init PROVE HeldInv
    OBVIOUS
  <2>1. /\ \A w \in Worker : job[w].op = NoOp
        /\ \A op \in Op : status[op] = "ABSENT"
    BY DEF Init, StoreInit, WorkerInit, IdleJob, Absent
  <2> QED
    BY <2>1, LifecycleInvInit, WorkerAssumption
       DEF HeldInv, RollbacksByJob, JobsRun, WedgedIsHeld, Wedged
<1>2. HeldInv /\ [Next]_vars => HeldInv'
  BY HeldInvStep
<1>3. HeldInv => WedgedIsHeld
  BY DEF HeldInv
<1> QED
  BY <1>1, <1>2, <1>3, PTL DEF Spec
=============================================================================

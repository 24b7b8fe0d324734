------------------------------ MODULE NodeRegistry ------------------------------
(***************************************************************************)
(* The registry of worker nodes: the heartbeat loop of the worker, the     *)
(* three NATS subscriptions of each entry replica, the lease monitor, the  *)
(* drain and undrain requests, and the row of the nodes table they all     *)
(* write.  Rows of different nodes never meet in one statement, so the     *)
(* module follows the row of one node id and the processes that, one after *)
(* the other or at the same time, run under it.                            *)
(*                                                                         *)
(* A subject is delivered in publication order to one goroutine of each    *)
(* replica; nothing orders two subjects or two replicas.                   *)
(***************************************************************************)
EXTENDS Integers, Sequences

CONSTANTS
  Instance,      \* runs of the worker process, numbered in starting order
  Overlap,       \* a run may start while an earlier one is still up
  Replica,       \* entry replicas
  Request,       \* drain and undrain requests
  Wanted,        \* Wanted[q]: the status request q asks for
  Lease,         \* the lease, in ticks of time
  MaxQueue,      \* bound on the undelivered messages of a subscription
  CallsMayFail   \* a message may be lost, a repository call may fail

ASSUME RegistryAssumption ==
  /\ Instance \subseteq Nat \ {0} /\ Instance # {}
  /\ Lease \in Nat \ {0}
  /\ MaxQueue \in Nat
  /\ Overlap \in BOOLEAN /\ CallsMayFail \in BOOLEAN
  /\ Wanted \in [Request -> { "ONLINE", "DRAINING" }]

VARIABLES
  row,           \* the node's row: status, instance_id, time left on the lease
  process,       \* process[k]: the position of run k in the heartbeat loop
  queue,         \* queue[r][s]: messages of subject s replica r has yet to handle
  request        \* request[q]: the position of the handler, or its answer

vars == << row, process, queue, request >>

Subject == { "register", "heartbeat", "goodbye" }
Running == { "starting", "waiting", "beating" }
Answer == { "ok", "conflict", "not_found", "failed" }
NodeStatus == { "ONLINE", "DRAINING", "OFFLINE" }
NoRow == [status |-> "ABSENT", instance |-> 0, lease |-> 0]

TypeOK ==
  /\ row \in [status : NodeStatus, instance : Instance, lease : 0 .. Lease] \cup {NoRow}
  /\ process \in [Instance -> Running \cup { "new", "gone" }]
  /\ queue \in [Replica -> [Subject -> Seq(Instance)]]
  /\ request \in [Request -> Answer \cup { "new", "looked", "unmatched" }]

Init ==
  /\ row = NoRow
  /\ process = [k \in Instance |-> "new"]
  /\ queue = [r \in Replica |-> [s \in Subject |-> << >>]]
  /\ request = [q \in Request |-> "new"]

-----------------------------------------------------------------------------
(* The worker process *)

\* Publish one message.  A replica that is down, or whose subscription is
\* full, does not get it.
Publish(s, k) ==
  \E got \in SUBSET Replica :
    /\ CallsMayFail \/ got = Replica
    /\ queue' = [r \in Replica |->
                   IF r \in got /\ Len(queue[r][s]) < MaxQueue
                   THEN [queue[r] EXCEPT ![s] = Append(@, k)]
                   ELSE queue[r]]

Goto(k, from, to) ==
  /\ process[k] = from
  /\ process' = [process EXCEPT ![k] = to]

Start(k) ==
  /\ Goto(k, "new", "starting")
  /\ \A m \in Instance : m < k => process[m] \in IF Overlap THEN Running \cup {"gone"}
                                                            ELSE {"gone"}
  /\ UNCHANGED << row, queue, request >>

\* HeartbeatManager.Run: register once, then on each tick register and beat.
Register(k) ==
  /\ Goto(k, "starting", "waiting") \/ Goto(k, "waiting", "beating")
  /\ Publish("register", k)
  /\ UNCHANGED << row, request >>

Heartbeat(k) ==
  /\ Goto(k, "beating", "waiting")
  /\ Publish("heartbeat", k)
  /\ UNCHANGED << row, request >>

\* The context is done: goodbye, and the process ends.
Goodbye(k) ==
  /\ Goto(k, "waiting", "gone")
  /\ Publish("goodbye", k)
  /\ UNCHANGED << row, request >>

Crash(k) ==
  /\ process[k] \in Running
  /\ process' = [process EXCEPT ![k] = "gone"]
  /\ UNCHANGED << row, queue, request >>

-----------------------------------------------------------------------------
(* The statements of MariaDBNodeRepository on the row *)

\* The CASE of every statement the worker's messages and the monitor run.
MutantUnlessDraining(st) == st
UnlessDraining(st) == IF row.status = "DRAINING" THEN "DRAINING" ELSE st

MutantRegisterRow(k) ==
  [status |-> UnlessDraining("ONLINE"), lease |-> Lease,
   instance |-> IF row = NoRow THEN k ELSE row.instance]
RegisterRow(k) == [status |-> UnlessDraining("ONLINE"), instance |-> k, lease |-> Lease]

\* Only the registered instance renews the lease or gives it up.
MutantHeartbeatRow(k) ==
  IF row = NoRow THEN row
  ELSE [status |-> UnlessDraining("ONLINE"), instance |-> k, lease |-> Lease]
HeartbeatRow(k) ==
  IF row.instance # k THEN row
  ELSE [row EXCEPT !.status = UnlessDraining("ONLINE"), !.lease = Lease]

MutantGoodbyeRow(k) ==
  IF row = NoRow THEN row
  ELSE [row EXCEPT !.status = UnlessDraining("OFFLINE"), !.lease = 0]
MutantGoodbyeClears(k) ==
  IF row.instance # k THEN row
  ELSE [status |-> UnlessDraining("OFFLINE"), instance |-> 0, lease |-> 0]
GoodbyeRow(k) ==
  IF row.instance # k THEN row
  ELSE [row EXCEPT !.status = UnlessDraining("OFFLINE"), !.lease = 0]

-----------------------------------------------------------------------------
(* The entry *)

\* handleNodeRegister, handleNodeHeartbeat and handleNodeGoodbye: the next
\* message of a subscription.  One the repository fails to apply is dropped.
Handle(r, s) ==
  /\ queue[r][s] # << >>
  /\ queue' = [queue EXCEPT ![r][s] = Tail(@)]
  /\ LET k == Head(queue[r][s]) IN
       \/ row' = CASE s = "register"  -> RegisterRow(k)
                   [] s = "heartbeat" -> HeartbeatRow(k)
                   [] s = "goodbye"   -> GoodbyeRow(k)
       \/ CallsMayFail /\ row' = row
  /\ UNCHANGED << process, request >>

Tick ==
  /\ row.lease > 0
  /\ row' = [row EXCEPT !.lease = @ - 1]
  /\ UNCHANGED << process, queue, request >>

\* RunNodeMonitor: MarkExpired.
MutantMarkExpired ==
  /\ row.status \in { "ONLINE", "DRAINING" } /\ row.lease > 0
  /\ row' = [row EXCEPT !.status = UnlessDraining("OFFLINE")]
  /\ UNCHANGED << process, queue, request >>
MarkExpired ==
  /\ row.status \in { "ONLINE", "DRAINING" } /\ row.lease = 0
  /\ row' = [row EXCEPT !.status = UnlessDraining("OFFLINE")]
  /\ UNCHANGED << process, queue, request >>

\* setDraining: read the node first ...
LookUp(q) ==
  /\ request[q] = "new"
  /\ \/ request' = [request EXCEPT ![q] =
          CASE row.status = "ABSENT"  -> "not_found"
            [] row.status = "OFFLINE" -> "conflict"
            [] OTHER                  -> "looked"]
     \/ CallsMayFail /\ request' = [request EXCEPT ![q] = "failed"]
  /\ UNCHANGED << row, process, queue >>

\* ... then SetDraining writes the status unless the row is OFFLINE by now ...
SetDraining(q) ==
  /\ request[q] = "looked"
  /\ \/ /\ row.status # "OFFLINE"
        /\ row' = [row EXCEPT !.status = Wanted[q]]
        /\ \/ request' = [request EXCEPT ![q] = "ok"]
           \/ CallsMayFail /\ request' = [request EXCEPT ![q] = "failed"]
     \/ /\ row.status = "OFFLINE"
        /\ request' = [request EXCEPT ![q] = "unmatched"]
        /\ UNCHANGED row
     \/ /\ CallsMayFail
        /\ request' = [request EXCEPT ![q] = "failed"]
        /\ UNCHANGED row
  /\ UNCHANGED << process, queue >>

\* ... and, having matched no row, reads it again to tell why.
Confirm(q) ==
  /\ request[q] = "unmatched"
  /\ \/ request' = [request EXCEPT ![q] = IF row.status = "OFFLINE" THEN "conflict" ELSE "ok"]
     \/ CallsMayFail /\ request' = [request EXCEPT ![q] = "failed"]
  /\ UNCHANGED << row, process, queue >>

-----------------------------------------------------------------------------
ProcessStep(k) == Start(k) \/ Register(k) \/ Heartbeat(k) \/ Goodbye(k) \/ Crash(k)
RequestStep(q) == LookUp(q) \/ SetDraining(q) \/ Confirm(q)

Next ==
  \/ \E k \in Instance : ProcessStep(k)
  \/ \E r \in Replica, s \in Subject : Handle(r, s)
  \/ Tick \/ MarkExpired
  \/ \E q \in Request : RequestStep(q)

Spec == Init /\ [][Next]_vars

\* A running process keeps to its ticker, subscriptions are served, time
\* passes, the monitor's ticker fires; no request need ever be made, no run
\* need ever start or end.
Fairness ==
  /\ \A k \in Instance : WF_vars(Register(k)) /\ WF_vars(Heartbeat(k))
  /\ \A r \in Replica, s \in Subject : WF_vars(Handle(r, s))
  /\ WF_vars(Tick) /\ WF_vars(MarkExpired)

FairSpec == Spec /\ Fairness

-----------------------------------------------------------------------------
(* Safety *)

\* A node that is being drained stays so until an undrain request: through
\* registrations of new runs, heartbeats, goodbyes and expired leases.
DrainEndsByRequest ==
  [][row.status = "DRAINING" /\ row'.status # "DRAINING"
       => \E q \in Request : /\ Wanted[q] = "ONLINE"
                             /\ request[q] = "looked" /\ request'[q] # "looked"]_vars

\* An ONLINE node goes OFFLINE only when its lease ran out or the registered
\* run itself is gone: the late goodbye of an earlier run, handled after the
\* registration of its successor, does not take the successor down.
OfflineOnlyWhenSilent ==
  [][row.status = "ONLINE" /\ row'.status = "OFFLINE"
       => row.lease = 0 \/ process[row.instance] = "gone"]_vars

\* Where one entry serves the subjects and runs follow each other, the row
\* never goes back to an earlier run: register messages stay in order, and a
\* late heartbeat of the earlier run is refused.
LaterRunKeepsRow ==
  [][row # NoRow => row'.instance >= row.instance]_vars

-----------------------------------------------------------------------------
(* Liveness *)

AllGone == \A k \in Instance : process[k] = "gone"
OnlyRunning(k) == \A m \in Instance : process[m] \in Running <=> m = k

\* When every run is gone the node stops being offered for updates for good,
\* whatever messages were still on their way and in whatever order they came.
DeadNodeLeaves == AllGone ~> [](row.status # "ONLINE")

\* When one run remains, the row ends up and stays registered to it, however
\* the replicas interleaved its messages with those of earlier runs, and it
\* does not stay OFFLINE.
RowFollowsRun ==
  \A k \in Instance :
    <>[]OnlyRunning(k) => <>[](row.instance = k) /\ []<>(row.status # "OFFLINE")

-----------------------------------------------------------------------------
(* What the documents say and the code does not do *)

\* docs/client-to-entry.md, "POST /nodes/{id}/drain -> stop accepting new
\* operations (status DRAINING)": a node whose drain request is answered 200,
\* which also names the status, is DRAINING.
DrainTakesEffect ==
  [][\A q \in Request : Wanted[q] = "DRAINING" /\ request[q] # "ok" /\ request'[q] = "ok"
       => row'.status = "DRAINING"]_vars
=============================================================================

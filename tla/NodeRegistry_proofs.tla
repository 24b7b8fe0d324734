-------------------------- MODULE NodeRegistry_proofs --------------------------
(***************************************************************************)
(* Theorems about the node registry, for every set of runs, replicas and   *)
(* requests, every lease and every bound on the queues.                    *)
(***************************************************************************)
EXTENDS NodeRegistry, SequenceTheorems, TLAPS

\* What the lemmas below rest on of the row, once it exists or not.
LEMMA RowParts ==
  ASSUME TypeOK
  PROVE  /\ row.status \in NodeStatus \cup {"ABSENT"}
         /\ row.lease \in 0 .. Lease
         /\ row.status = "ABSENT" <=> row = NoRow
         /\ row.instance \in Instance => row # NoRow
         /\ row # NoRow => row \in [status : NodeStatus, instance : Instance, lease : 0 .. Lease]
BY RegistryAssumption DEF TypeOK, NoRow, NodeStatus

\* Publishing keeps every subscription a sequence of messages (NATS client).
LEMMA PublishTypes ==
  ASSUME TypeOK, NEW s \in Subject, NEW k \in Instance, Publish(s, k)
  PROVE  queue' \in [Replica -> [Subject -> Seq(Instance)]]
BY DEF TypeOK, Publish

\* The statements of the repository keep the row well-formed, and none of
\* them ends DRAINING (MariaDBNodeRepository.Register, Heartbeat, Goodbye).
LEMMA StatementsKeepDraining ==
  ASSUME TypeOK, NEW k \in Instance,
         row' \in { RegisterRow(k), HeartbeatRow(k), GoodbyeRow(k), row }
  PROVE  /\ row' \in [status : NodeStatus, instance : Instance, lease : 0 .. Lease] \cup {NoRow}
         /\ row.status = "DRAINING" => row'.status = "DRAINING"
<1> USE RegistryAssumption DEF NodeStatus, UnlessDraining
<1>1. CASE row' = RegisterRow(k)
  BY <1>1 DEF RegisterRow
<1>2. CASE row' = HeartbeatRow(k)
  <2>1. CASE row.instance # k
    BY <1>2, <2>1 DEF HeartbeatRow, TypeOK
  <2>2. CASE row.instance = k
    <3>1. row \in [status : NodeStatus, instance : Instance, lease : 0 .. Lease]
      BY <2>2, RowParts
    <3>2. row' = [row EXCEPT !.status = UnlessDraining("ONLINE"), !.lease = Lease]
      BY <1>2, <2>2 DEF HeartbeatRow
    <3>3. Lease \in 0 .. Lease
      OBVIOUS
    <3>4. /\ UnlessDraining("ONLINE") \in NodeStatus
          /\ row.status = "DRAINING" => UnlessDraining("ONLINE") = "DRAINING"
      OBVIOUS
    <3> HIDE DEF UnlessDraining, NodeStatus
    <3> QED  BY <3>1, <3>2, <3>3, <3>4
  <2> QED  BY <2>1, <2>2
<1>3. CASE row' = GoodbyeRow(k)
  <2>1. CASE row.instance # k
    BY <1>3, <2>1 DEF GoodbyeRow, TypeOK
  <2>2. CASE row.instance = k
    <3>1. row \in [status : NodeStatus, instance : Instance, lease : 0 .. Lease]
      BY <2>2, RowParts
    <3>2. row' = [row EXCEPT !.status = UnlessDraining("OFFLINE"), !.lease = 0]
      BY <1>3, <2>2 DEF GoodbyeRow
    <3>3. 0 \in 0 .. Lease
      OBVIOUS
    <3>4. /\ UnlessDraining("OFFLINE") \in NodeStatus
          /\ row.status = "DRAINING" => UnlessDraining("OFFLINE") = "DRAINING"
      OBVIOUS
    <3> HIDE DEF UnlessDraining, NodeStatus
    <3> QED  BY <3>1, <3>2, <3>3, <3>4
  <2> QED  BY <2>1, <2>2
<1>4. CASE row' = row
  BY <1>4 DEF TypeOK
<1> QED  BY <1>1, <1>2, <1>3, <1>4

\* Rows are never deleted: no statement turns a row into no row.
LEMMA StatementsKeepRow ==
  ASSUME TypeOK, row # NoRow, NEW k \in Instance,
         row' \in { RegisterRow(k), HeartbeatRow(k), GoodbyeRow(k), row }
  PROVE  row' # NoRow
<1>1. row \in [status : NodeStatus, instance : Instance, lease : 0 .. Lease]
  BY RowParts
<1>2. row'.instance = row.instance \/ row'.instance = k
  <2>1. CASE row' = RegisterRow(k)
    BY <2>1 DEF RegisterRow
  <2>2. CASE row' = HeartbeatRow(k)
    BY <2>2, <1>1 DEF HeartbeatRow
  <2>3. CASE row' = GoodbyeRow(k)
    BY <2>3, <1>1 DEF GoodbyeRow
  <2> QED  BY <2>1, <2>2, <2>3
<1>3. row'.instance # 0
  BY <1>1, <1>2, RegistryAssumption
<1> QED  BY <1>3 DEF NoRow

\* Handling a message takes it off its subscription and runs one statement
\* for the run that sent it (handleNodeRegister, -Heartbeat, -Goodbye).
LEMMA HandleSteps ==
  ASSUME TypeOK, NEW r \in Replica, NEW s \in Subject, Handle(r, s)
  PROVE  /\ TypeOK'
         /\ row # NoRow => row' # NoRow
         /\ row.status = "DRAINING" => row'.status = "DRAINING"
<1> DEFINE k == Head(queue[r][s])
<1>1. queue[r][s] \in Seq(Instance) /\ queue[r][s] # << >>
  BY DEF TypeOK, Handle
<1>2. k \in Instance /\ Tail(queue[r][s]) \in Seq(Instance)
  BY <1>1
<1>3. row' \in { RegisterRow(k), HeartbeatRow(k), GoodbyeRow(k), row }
  BY DEF Handle, Subject
<1>4. queue' \in [Replica -> [Subject -> Seq(Instance)]]
  BY <1>2 DEF Handle, TypeOK
<1>5. /\ row' \in [status : NodeStatus, instance : Instance, lease : 0 .. Lease] \cup {NoRow}
      /\ row # NoRow => row' # NoRow
      /\ row.status = "DRAINING" => row'.status = "DRAINING"
  BY <1>2, <1>3, StatementsKeepDraining, StatementsKeepRow
<1> QED  BY <1>4, <1>5 DEF Handle, TypeOK

\* A request gets past the first read only for a node that has a row.
LookedAtRow ==
  \A q \in Request : request[q] \in { "looked", "unmatched", "ok", "conflict" } => row # NoRow

\* The inductive invariant.  TypeOK alone is not inductive: were a request
\* past its first read of a node without a row, SetDraining would write one.
RegistryInv == TypeOK /\ LookedAtRow

\* Every step of the system keeps the invariant and leaves DRAINING only
\* where a request that wants ONLINE writes it.
LEMMA StepKeepsInv ==
  ASSUME RegistryInv, Next
  PROVE  /\ RegistryInv'
         /\ row.status = "DRAINING" /\ row'.status # "DRAINING"
              => \E q \in Request : /\ Wanted[q] = "ONLINE"
                                    /\ request[q] = "looked" /\ request'[q] # "looked"
<1> USE DEF RegistryInv
<1>1. ASSUME NEW k \in Instance, ProcessStep(k)
      PROVE  TypeOK' /\ row' = row /\ request' = request
  <2>1. CASE Start(k)
    BY <2>1 DEF Start, Goto, TypeOK, Running
  <2>2. CASE Register(k)
    BY <2>2, PublishTypes DEF Register, Goto, TypeOK, Running, Subject
  <2>3. CASE Heartbeat(k)
    BY <2>3, PublishTypes DEF Heartbeat, Goto, TypeOK, Running, Subject
  <2>4. CASE Goodbye(k)
    BY <2>4, PublishTypes DEF Goodbye, Goto, TypeOK, Subject
  <2>5. CASE Crash(k)
    BY <2>5 DEF Crash, TypeOK
  <2> QED  BY <1>1, <2>1, <2>2, <2>3, <2>4, <2>5 DEF ProcessStep
<1>2. ASSUME NEW r \in Replica, NEW s \in Subject, Handle(r, s)
      PROVE  /\ RegistryInv'
             /\ row.status = "DRAINING" => row'.status = "DRAINING"
  <2>1. request' = request
    BY <1>2 DEF Handle
  <2> QED  BY <1>2, <2>1, HandleSteps DEF LookedAtRow
<1>3. CASE Tick
  <2>1. row # NoRow /\ row \in [status : NodeStatus, instance : Instance, lease : 0 .. Lease]
    BY <1>3, RowParts DEF Tick, NoRow
  <2>2. row.lease - 1 \in 0 .. Lease
    BY <1>3, <2>1, RegistryAssumption DEF Tick
  <2>3. row' \in [status : NodeStatus, instance : Instance, lease : 0 .. Lease]
    BY <1>3, <2>1, <2>2 DEF Tick
  <2>4. row' # NoRow /\ row'.status = row.status
    BY <1>3, <2>1, <2>3 DEF Tick, NoRow, NodeStatus
  <2> QED  BY <1>3, <2>3, <2>4 DEF Tick, TypeOK, LookedAtRow
<1>4. CASE MarkExpired
  <2>1. row # NoRow /\ row \in [status : NodeStatus, instance : Instance, lease : 0 .. Lease]
    BY <1>4, RowParts DEF MarkExpired, NoRow
  <2>2. /\ row' \in [status : NodeStatus, instance : Instance, lease : 0 .. Lease]
        /\ row' # NoRow
        /\ row.status = "DRAINING" => row'.status = "DRAINING"
    BY <1>4, <2>1 DEF MarkExpired, UnlessDraining, NoRow, NodeStatus
  <2> QED  BY <1>4, <2>2 DEF MarkExpired, TypeOK, LookedAtRow
<1>5. ASSUME NEW q \in Request, RequestStep(q)
      PROVE  /\ RegistryInv'
             /\ row.status = "DRAINING" /\ row'.status # "DRAINING"
                  => /\ Wanted[q] = "ONLINE"
                     /\ request[q] = "looked" /\ request'[q] # "looked"
  <2>1. CASE LookUp(q)
    BY <2>1 DEF LookUp, TypeOK, Answer, LookedAtRow, NoRow
  <2>2. CASE Confirm(q)
    BY <2>2 DEF Confirm, TypeOK, Answer, LookedAtRow
  <2>3. CASE SetDraining(q)
    <3>1. row # NoRow /\ row \in [status : NodeStatus, instance : Instance, lease : 0 .. Lease]
      BY <2>3, RowParts DEF SetDraining, LookedAtRow
    <3>2. Wanted[q] \in { "ONLINE", "DRAINING" }
      BY RegistryAssumption
    <3>3. row' = row \/ row' = [row EXCEPT !.status = Wanted[q]]
      BY <2>3 DEF SetDraining
    <3>4. /\ row' \in [status : NodeStatus, instance : Instance, lease : 0 .. Lease]
          /\ row' # NoRow
          /\ row.status = "DRAINING" /\ row'.status # "DRAINING" => Wanted[q] = "ONLINE"
      BY <3>1, <3>2, <3>3 DEF NoRow, NodeStatus
    <3>5. /\ request' \in [Request -> Answer \cup { "new", "looked", "unmatched" }]
          /\ request[q] = "looked" /\ request'[q] # "looked"
          /\ process' = process /\ queue' = queue
      BY <2>3 DEF SetDraining, TypeOK, Answer
    <3> QED  BY <3>4, <3>5 DEF TypeOK, LookedAtRow
  <2> QED  BY <1>5, <2>1, <2>2, <2>3 DEF RequestStep
<1>6. CASE \E k \in Instance : ProcessStep(k)
  BY <1>1, <1>6 DEF LookedAtRow
<1>7. CASE \E r \in Replica, s \in Subject : Handle(r, s)
  BY <1>2, <1>7
<1>8. CASE \E q \in Request : RequestStep(q)
  BY <1>5, <1>8
<1>9. CASE Tick \/ MarkExpired
  <2>1. RegistryInv'
    BY <1>3, <1>4, <1>9
  <2>2. row.status = "DRAINING" => row'.status = "DRAINING"
    BY <1>9, RowParts DEF Tick, MarkExpired, UnlessDraining, TypeOK, NoRow
  <2> QED  BY <2>1, <2>2
<1> QED  BY <1>6, <1>7, <1>8, <1>9 DEF Next

\* The initial values, an empty table and no process, satisfy it.
LEMMA InitInv == Init => RegistryInv
BY DEF Init, RegistryInv, TypeOK, LookedAtRow, Running

\* It holds in every reachable state.
LEMMA InvHolds == Spec => []RegistryInv
<1>1. RegistryInv /\ [Next]_vars => RegistryInv'
  <2>1. RegistryInv /\ UNCHANGED vars => RegistryInv'
    BY DEF RegistryInv, LookedAtRow, TypeOK, vars
  <2> QED  BY <2>1, StepKeepsInv
<1> QED  BY <1>1, InitInv, PTL DEF Spec

\* TypeOK holds in every reachable state (the nodes table and its writers).
THEOREM RegistryTypeCorrect == Spec => []TypeOK
<1>1. RegistryInv => TypeOK
  BY DEF RegistryInv
<1> QED  BY <1>1, InvHolds, PTL

\* Only an undrain request ends the draining of a node: no registration,
\* heartbeat, goodbye or expired lease does.
THEOREM DrainingLasts == Spec => DrainEndsByRequest
<1>1. RegistryInv /\ [Next]_vars
        => [row.status = "DRAINING" /\ row'.status # "DRAINING"
              => \E q \in Request : /\ Wanted[q] = "ONLINE"
                                    /\ request[q] = "looked" /\ request'[q] # "looked"]_vars
  BY StepKeepsInv
<1> QED  BY <1>1, InvHolds, PTL DEF Spec, DrainEndsByRequest
-----------------------------------------------------------------------------
(* Goodbyes and runs *)

\* A subscription after a message of run k is published to subject s.
LEMMA Published ==
  ASSUME TypeOK, NEW s \in Subject, NEW k \in Instance, Publish(s, k),
         NEW r \in Replica, NEW t \in Subject
  PROVE  \/ queue'[r][t] = queue[r][t]
         \/ t = s /\ queue'[r][t] = Append(queue[r][t], k)
BY DEF TypeOK, Publish

\* What a message on a subscription was before a step: there already, or the
\* one just published by a run that was up.
LEMMA MessageFrom ==
  ASSUME TypeOK, Next, NEW r \in Replica, NEW t \in Subject, NEW i \in 1 .. Len(queue'[r][t])
  PROVE  \/ \E j \in 1 .. Len(queue[r][t]) : queue'[r][t][i] = queue[r][t][j]
         \/ \E k \in Instance :
              /\ queue'[r][t][i] = k /\ process[k] \in Running
              /\ t = "goodbye" => process'[k] = "gone"
<1>1. queue[r][t] \in Seq(Instance)
  BY DEF TypeOK
<1>2. CASE queue'[r][t] = queue[r][t]
  BY <1>2
<1>3. ASSUME NEW s \in Subject, NEW k \in Instance, Publish(s, k), process[k] \in Running,
             s = "goodbye" => process'[k] = "gone"
      PROVE  \/ \E j \in 1 .. Len(queue[r][t]) : queue'[r][t][i] = queue[r][t][j]
             \/ \E m \in Instance :
                  /\ queue'[r][t][i] = m /\ process[m] \in Running
                  /\ t = "goodbye" => process'[m] = "gone"
  <2>1. CASE queue'[r][t] = Append(queue[r][t], k) /\ t = s
    <3>1. CASE i = Len(queue[r][t]) + 1
      BY <1>1, <1>3, <2>1, <3>1
    <3>2. CASE i \in 1 .. Len(queue[r][t])
      BY <1>1, <2>1, <3>2
    <3> QED  BY <1>1, <2>1, <3>1, <3>2
  <2> QED  BY <1>2, <1>3, <2>1, Published
<1>4. ASSUME NEW k \in Instance, ProcessStep(k), ~ UNCHANGED queue
      PROVE  \E s \in Subject : /\ Publish(s, k) /\ process[k] \in Running
                                /\ s = "goodbye" => process'[k] = "gone"
  <2>1. process \in [Instance -> Running \cup { "new", "gone" }]
    BY DEF TypeOK
  <2>2. CASE Register(k) \/ Heartbeat(k) \/ Goodbye(k)
    BY <2>1, <2>2 DEF Register, Heartbeat, Goodbye, Goto, Running, Subject
  <2>3. CASE Start(k) \/ Crash(k)
    BY <1>4, <2>3 DEF Start, Crash
  <2> QED  BY <1>4, <2>2, <2>3 DEF ProcessStep
<1>5. ASSUME NEW x \in Replica, NEW s \in Subject, Handle(x, s)
      PROVE  \E j \in 1 .. Len(queue[r][t]) : queue'[r][t][i] = queue[r][t][j]
  <2>1. CASE x = r /\ s = t
    <3>1. queue'[r][t] = Tail(queue[r][t]) /\ queue[r][t] # << >>
      BY <1>5, <2>1 DEF Handle, TypeOK
    <3>2. i + 1 \in 1 .. Len(queue[r][t]) /\ queue'[r][t][i] = queue[r][t][i + 1]
      BY <1>1, <3>1
    <3> QED  BY <3>2
  <2>2. CASE ~ (x = r /\ s = t)
    BY <1>2, <1>5, <2>2 DEF Handle, TypeOK
  <2> QED  BY <2>1, <2>2
<1>6. ASSUME Tick \/ MarkExpired \/ \E q \in Request : RequestStep(q) PROVE UNCHANGED queue
  BY <1>6 DEF Tick, MarkExpired, RequestStep, LookUp, SetDraining, Confirm
<1>7. CASE UNCHANGED queue
  BY <1>2, <1>7
<1> QED  BY <1>3, <1>4, <1>5, <1>6, <1>7 DEF Next

\* A run that is gone does not come back, and none is new again.
LEMMA RunsGoOn ==
  ASSUME TypeOK, Next, NEW k \in Instance
  PROVE  /\ process[k] = "gone" => process'[k] = "gone"
         /\ process[k] # "new" => process'[k] # "new"
         /\ process[k] = "new" /\ process'[k] # "new" => Start(k)
<1>1. process \in [Instance -> Running \cup { "new", "gone" }]
  BY DEF TypeOK
<1>2. ASSUME NEW m \in Instance, ProcessStep(m)
      PROVE  /\ process[k] = "gone" => process'[k] = "gone"
             /\ process[k] # "new" => process'[k] # "new"
             /\ process[k] = "new" /\ process'[k] # "new" => Start(k)
  <2>1. CASE Start(m)
    BY <1>1, <2>1 DEF Start, Goto, Running
  <2>2. CASE Register(m)
    BY <1>1, <2>2 DEF Register, Goto, Running
  <2>3. CASE Heartbeat(m)
    BY <1>1, <2>3 DEF Heartbeat, Goto, Running
  <2>4. CASE Goodbye(m)
    BY <1>1, <2>4 DEF Goodbye, Goto
  <2>5. CASE Crash(m)
    BY <1>1, <2>5 DEF Crash, Running
  <2> QED  BY <1>2, <2>1, <2>2, <2>3, <2>4, <2>5 DEF ProcessStep
<1>3. ASSUME NEW r \in Replica, NEW s \in Subject, Handle(r, s) PROVE UNCHANGED process
  BY <1>3 DEF Handle
<1>4. ASSUME Tick \/ MarkExpired \/ \E q \in Request : RequestStep(q) PROVE UNCHANGED process
  BY <1>4 DEF Tick, MarkExpired, RequestStep, LookUp, SetDraining, Confirm
<1> QED  BY <1>2, <1>3, <1>4 DEF Next

\* Who says goodbye is gone, however late the message is handled.
GoodbyesOfGone ==
  \A r \in Replica : \A i \in 1 .. Len(queue[r]["goodbye"]) :
    process[queue[r]["goodbye"][i]] = "gone"

\* No run starts again after its goodbye, so a goodbye on its way stays true.
LEMMA GoodbyesStayTrue ==
  ASSUME TypeOK, GoodbyesOfGone, Next
  PROVE  GoodbyesOfGone'
<1> SUFFICES ASSUME NEW r \in Replica, NEW i \in 1 .. Len(queue'[r]["goodbye"])
             PROVE  process'[queue'[r]["goodbye"][i]] = "gone"
  BY DEF GoodbyesOfGone
<1>1. "goodbye" \in Subject /\ queue[r]["goodbye"] \in Seq(Instance)
  BY DEF TypeOK, Subject
<1>2. CASE \E j \in 1 .. Len(queue[r]["goodbye"]) : queue'[r]["goodbye"][i] = queue[r]["goodbye"][j]
  <2>1. PICK j \in 1 .. Len(queue[r]["goodbye"]) : queue'[r]["goodbye"][i] = queue[r]["goodbye"][j]
    BY <1>2
  <2>2. queue[r]["goodbye"][j] \in Instance
    BY <1>1, <2>1
  <2> QED  BY <2>1, <2>2, RunsGoOn DEF GoodbyesOfGone
<1> QED  BY <1>1, <1>2, MessageFrom

\* The row leaves ONLINE for OFFLINE by a goodbye of its run, or when the lease
\* has run out: no request asks for OFFLINE.
LEMMA StepIntoOffline ==
  ASSUME RegistryInv, GoodbyesOfGone, Next, row.status = "ONLINE", row'.status = "OFFLINE"
  PROVE  row.lease = 0 \/ process[row.instance] = "gone"
<1>0. TypeOK /\ row \in [status : NodeStatus, instance : Instance, lease : 0 .. Lease]
  BY RowParts DEF RegistryInv, NoRow
<1>1. ASSUME NEW k \in Instance, ProcessStep(k) PROVE row' = row
  BY <1>1 DEF ProcessStep, Start, Register, Heartbeat, Goodbye, Crash
<1>2. ASSUME NEW r \in Replica, NEW s \in Subject, Handle(r, s)
      PROVE  process[row.instance] = "gone"
  <2> DEFINE k == Head(queue[r][s])
  <2>1. k = queue[r][s][1] /\ 1 \in 1 .. Len(queue[r][s])
    BY <1>0, <1>2 DEF Handle, TypeOK
  <2>2. CASE s = "goodbye" /\ row' = GoodbyeRow(k)
    <3>1. row.instance = k
      BY <2>2 DEF GoodbyeRow
    <3> QED  BY <2>1, <2>2, <3>1 DEF GoodbyesOfGone
  <2>3. CASE row' = RegisterRow(k)
    BY <2>3 DEF RegisterRow, UnlessDraining
  <2>4. CASE row' = HeartbeatRow(k)
    BY <1>0, <2>4 DEF HeartbeatRow, UnlessDraining
  <2>5. CASE row' = row
    BY <2>5
  <2> QED  BY <1>2, <2>2, <2>3, <2>4, <2>5 DEF Handle, Subject
<1>3. ASSUME NEW q \in Request, RequestStep(q) PROVE FALSE
  <2>1. row' = row \/ row' = [row EXCEPT !.status = Wanted[q]]
    BY <1>3 DEF RequestStep, LookUp, SetDraining, Confirm
  <2> QED  BY <1>0, <2>1, RegistryAssumption
<1>4. CASE MarkExpired
  BY <1>4 DEF MarkExpired
<1>5. CASE Tick
  BY <1>0, <1>5 DEF Tick
<1> QED  BY <1>1, <1>2, <1>3, <1>4, <1>5 DEF Next

\* An ONLINE node is taken down by the end of its own run or by its silence,
\* never by the late goodbye of a run that was replaced: for any number of
\* overlapping runs and replicas, and messages lost.
THEOREM OfflineMeansSilent == Spec => OfflineOnlyWhenSilent
<1>1. Init => GoodbyesOfGone
  BY DEF Init, GoodbyesOfGone, Subject
<1>2. RegistryInv /\ GoodbyesOfGone /\ [Next]_vars => GoodbyesOfGone'
  <2>1. CASE UNCHANGED vars
    BY <2>1 DEF vars, GoodbyesOfGone
  <2> QED  BY <2>1, GoodbyesStayTrue DEF RegistryInv
<1>3. RegistryInv /\ GoodbyesOfGone /\ [Next]_vars
        => [row.status = "ONLINE" /\ row'.status = "OFFLINE"
              => row.lease = 0 \/ process[row.instance] = "gone"]_vars
  BY StepIntoOffline
<1> QED  BY <1>1, <1>2, <1>3, InvHolds, PTL DEF Spec, OfflineOnlyWhenSilent

-----------------------------------------------------------------------------
(* Runs that follow each other, with one entry *)

\* Runs do not overlap, so that the one that is up is the last that started.
RunsFollow ==
  \A k, m \in Instance : m < k /\ process[k] # "new" => process[m] = "gone"

\* The register messages on their way are in the order of the runs, none of
\* them from before the run the row names.
RegistersInOrder ==
  \A r \in Replica :
    /\ \A i \in 1 .. Len(queue[r]["register"]) :
         /\ process[queue[r]["register"][i]] # "new"
         /\ row # NoRow => row.instance <= queue[r]["register"][i]
    /\ \A i, j \in 1 .. Len(queue[r]["register"]) :
         i <= j => queue[r]["register"][i] <= queue[r]["register"][j]

RowStarted == row # NoRow => process[row.instance] # "new"

SequentialInv == RegistryInv /\ RunsFollow /\ RegistersInOrder /\ RowStarted

\* A run starts when those before it are gone.
LEMMA RunsStayApart ==
  ASSUME ~Overlap, TypeOK, RunsFollow, Next
  PROVE  RunsFollow'
<1> SUFFICES ASSUME NEW k \in Instance, NEW m \in Instance, m < k, process'[k] # "new"
             PROVE  process'[m] = "gone"
  BY DEF RunsFollow
<1>1. CASE process[k] # "new"
  BY <1>1, RunsGoOn DEF RunsFollow
<1>2. CASE process[k] = "new"
  <2>1. Start(k)
    BY <1>2, RunsGoOn
  <2>2. process[m] = "gone"
    BY <2>1 DEF Start
  <2> QED  BY <2>2, RunsGoOn
<1> QED  BY <1>1, <1>2

\* The run that is up is the last of those that have started.
LEMMA LastRun ==
  ASSUME RunsFollow, NEW k \in Instance, process[k] \in Running,
         NEW m \in Instance, process[m] # "new"
  PROVE  m <= k
<1>1. k \in Nat /\ m \in Nat
  BY RegistryAssumption
<1>2. ~ (k < m)
  BY DEF RunsFollow, Running
<1> QED  BY <1>1, <1>2

\* What a step may make of the run that the row names: the sender of the first
\* register message, or nothing new.
RowMoves ==
  \/ row' = NoRow /\ row = NoRow
  \/ row # NoRow /\ row' # NoRow /\ row'.instance = row.instance
  \/ \E r \in Replica : /\ Handle(r, "register")
                        /\ row' # NoRow /\ row'.instance = Head(queue[r]["register"])

\* Heartbeats, goodbyes, the monitor and requests leave the instance alone.
LEMMA RowMovesSo ==
  ASSUME RegistryInv, Next
  PROVE  RowMoves
<1>0. TypeOK /\ (row # NoRow => row \in [status : NodeStatus, instance : Instance, lease : 0 .. Lease])
      /\ \A k \in Instance : k # NoRow.instance
  BY RowParts, RegistryAssumption DEF RegistryInv, NoRow
<1>1. ASSUME NEW k \in Instance, ProcessStep(k) PROVE RowMoves
  <2>1. row' = row
    BY <1>1 DEF ProcessStep, Start, Register, Heartbeat, Goodbye, Crash
  <2> QED  BY <2>1 DEF RowMoves
<1>2. ASSUME NEW r \in Replica, NEW s \in Subject, Handle(r, s) PROVE RowMoves
  <2> DEFINE k == Head(queue[r][s])
  <2>1. k \in Instance
    BY <1>0, <1>2 DEF Handle, TypeOK
  <2>2. CASE s = "register" /\ row' = RegisterRow(k)
    <3>1. row'.instance = k
      BY <2>2 DEF RegisterRow
    <3> QED  BY <1>0, <1>2, <2>1, <2>2, <3>1 DEF RowMoves
  <2>3. CASE row' = HeartbeatRow(k) \/ row' = GoodbyeRow(k)
    <3>1. CASE row.instance # k
      BY <2>3, <3>1 DEF HeartbeatRow, GoodbyeRow, RowMoves
    <3>2. CASE row.instance = k
      <4>1. row # NoRow /\ row'.instance = row.instance
        BY <1>0, <2>1, <2>3, <3>2 DEF HeartbeatRow, GoodbyeRow
      <4> QED  BY <1>0, <2>1, <3>2, <4>1 DEF RowMoves
    <3> QED  BY <3>1, <3>2
  <2>4. CASE row' = row
    BY <2>4 DEF RowMoves
  <2> QED  BY <1>2, <2>2, <2>3, <2>4 DEF Handle, Subject
<1>3. ASSUME Tick \/ MarkExpired \/ \E q \in Request : RequestStep(q) PROVE RowMoves
  <2>1. CASE row' = row
    BY <2>1 DEF RowMoves
  <2>2. CASE row' # row
    <3>1. row # NoRow
      BY <1>3, <2>2 DEF Tick, MarkExpired, RequestStep, LookUp, SetDraining, Confirm, RegistryInv,
                        LookedAtRow, NoRow
    <3>2. row'.instance = row.instance
      BY <1>0, <1>3, <2>2, <3>1
         DEF Tick, MarkExpired, RequestStep, LookUp, SetDraining, Confirm
    <3>3. row' # NoRow
      BY <1>0, <3>1, <3>2
    <3> QED  BY <3>1, <3>2, <3>3 DEF RowMoves
  <2> QED  BY <2>1, <2>2
<1> QED  BY <1>1, <1>2, <1>3 DEF Next

\* A run has started before the row names it.
LEMMA RowStaysStarted ==
  ASSUME SequentialInv, Next
  PROVE  RowStarted'
<1> USE DEF SequentialInv, RegistryInv
<1>1. CASE row # NoRow /\ row'.instance = row.instance
  <2>1. row.instance \in Instance
    BY <1>1, RowParts
  <2> QED  BY <1>1, <2>1, RunsGoOn DEF RowStarted
<1>2. ASSUME NEW r \in Replica, Handle(r, "register"), row'.instance = Head(queue[r]["register"])
      PROVE  RowStarted'
  <2>1. queue[r]["register"] \in Seq(Instance) /\ queue[r]["register"] # << >>
    BY <1>2 DEF Handle, TypeOK, Subject
  <2>2. row'.instance = queue[r]["register"][1] /\ 1 \in 1 .. Len(queue[r]["register"])
        /\ row'.instance \in Instance
    BY <1>2, <2>1
  <2>3. process[row'.instance] # "new"
    BY <2>2 DEF RegistersInOrder
  <2> QED  BY <2>2, <2>3, RunsGoOn DEF RowStarted
<1> QED  BY <1>1, <1>2, RowMovesSo DEF RowMoves, RowStarted

\* With one entry, register messages stay in order and ahead of the row.
LEMMA RegistersStayInOrder ==
  ASSUME \A x, y \in Replica : x = y, SequentialInv, Next
  PROVE  RegistersInOrder'
<1> USE DEF SequentialInv, RegistryInv
<1> SUFFICES ASSUME NEW r \in Replica
             PROVE  /\ \A i \in 1 .. Len(queue'[r]["register"]) :
                         /\ process'[queue'[r]["register"][i]] # "new"
                         /\ row' # NoRow => row'.instance <= queue'[r]["register"][i]
                    /\ \A i, j \in 1 .. Len(queue'[r]["register"]) :
                         i <= j => queue'[r]["register"][i] <= queue'[r]["register"][j]
  BY DEF RegistersInOrder
<1> DEFINE q == queue[r]["register"]
<1>0. q \in Seq(Instance) /\ "register" \in Subject /\ Instance \subseteq Nat
      /\ (row # NoRow => row.instance \in Instance)
  BY RowParts, RegistryAssumption DEF TypeOK, Subject
<1>1. /\ \A i \in 1 .. Len(q) : q[i] \in Instance /\ process[q[i]] # "new"
      /\ row # NoRow => \A i \in 1 .. Len(q) : row.instance <= q[i]
      /\ \A i, j \in 1 .. Len(q) : i <= j => q[i] <= q[j]
  BY <1>0 DEF RegistersInOrder
<1>2. \A i \in 1 .. Len(q) : process'[q[i]] # "new"
  BY <1>1, RunsGoOn
<1>3. CASE Handle(r, "register")
  <2>1. q # << >> /\ queue'[r]["register"] = Tail(q)
    BY <1>0, <1>3 DEF Handle, TypeOK
  <2>2. /\ Len(Tail(q)) = Len(q) - 1
        /\ \A i \in 1 .. Len(Tail(q)) : i + 1 \in 1 .. Len(q) /\ Tail(q)[i] = q[i + 1]
    BY <1>0, <2>1
  <2>3. ASSUME NEW i \in 1 .. Len(Tail(q)), row' # NoRow PROVE row'.instance <= Tail(q)[i]
    <3>1. CASE row # NoRow /\ row'.instance = row.instance
      BY <1>1, <2>2, <3>1
    <3>2. CASE \E x \in Replica : row'.instance = Head(queue[x]["register"])
      <4>1. row'.instance = q[1] /\ 1 \in 1 .. Len(q) /\ 1 <= i + 1
        BY <1>0, <2>1, <3>2
      <4> QED  BY <1>1, <2>2, <4>1
    <3> QED  BY <2>3, <3>1, <3>2, RowMovesSo DEF RowMoves
  <2>4. ASSUME NEW i \in 1 .. Len(Tail(q)), NEW j \in 1 .. Len(Tail(q)), i <= j
        PROVE  Tail(q)[i] <= Tail(q)[j]
    <3>1. i + 1 <= j + 1 /\ i + 1 \in 1 .. Len(q) /\ j + 1 \in 1 .. Len(q)
      BY <2>2, <2>4
    <3> QED  BY <1>1, <2>2, <3>1
  <2> QED  BY <1>2, <2>1, <2>2, <2>3, <2>4
<1>4. CASE ~ Handle(r, "register")
  <2>1. row' = NoRow \/ (row # NoRow /\ row'.instance = row.instance)
    BY <1>4, RowMovesSo DEF RowMoves
  <2>2. CASE queue'[r]["register"] = q
    BY <1>1, <1>2, <2>1, <2>2
  <2>3. ASSUME NEW k \in Instance, process[k] \in Running, queue'[r]["register"] = Append(q, k)
        PROVE  RegistersInOrder'
    <3>1. /\ Len(Append(q, k)) = Len(q) + 1 /\ Append(q, k)[Len(q) + 1] = k
          /\ \A i \in 1 .. Len(q) : Append(q, k)[i] = q[i]
      BY <1>0
    <3>2. /\ \A i \in 1 .. Len(q) : q[i] <= k
          /\ row # NoRow => row.instance <= k
          /\ k <= k
      <4>1. \A m \in Instance : process[m] # "new" => m <= k
        BY <2>3, LastRun
      <4>2. row # NoRow => process[row.instance] # "new"
        BY DEF RowStarted
      <4>3. k \in Nat
        BY <1>0
      <4>4. \A i \in 1 .. Len(q) : q[i] <= k
        BY <1>1, <4>1
      <4>5. row # NoRow => row.instance <= k
        BY <1>0, <4>1, <4>2
      <4> QED  BY <4>3, <4>4, <4>5
    <3>3. process'[k] # "new"
      BY <2>3, RunsGoOn DEF Running
    <3>4. \A i \in 1 .. Len(Append(q, k)) :
            /\ process'[Append(q, k)[i]] # "new"
            /\ row' # NoRow => row'.instance <= Append(q, k)[i]
      <4> SUFFICES ASSUME NEW i \in 1 .. Len(q) + 1
                   PROVE  /\ process'[Append(q, k)[i]] # "new"
                          /\ row' # NoRow => row'.instance <= Append(q, k)[i]
        BY <3>1
      <4>1. CASE i \in 1 .. Len(q)
        BY <1>1, <1>2, <2>1, <3>1, <4>1
      <4>2. CASE i = Len(q) + 1
        BY <2>1, <3>1, <3>2, <3>3, <4>2
      <4>3. Len(q) \in Nat
        BY <1>0
      <4> QED  BY <4>1, <4>2, <4>3
    <3>5. \A i, j \in 1 .. Len(Append(q, k)) : i <= j => Append(q, k)[i] <= Append(q, k)[j]
      <4> SUFFICES ASSUME NEW i \in 1 .. Len(q) + 1, NEW j \in 1 .. Len(q) + 1, i <= j
                   PROVE  Append(q, k)[i] <= Append(q, k)[j]
        BY <3>1
      <4>1. Len(q) \in Nat
        BY <1>0
      <4>2. CASE j \in 1 .. Len(q)
        <5>1. i \in 1 .. Len(q)
          BY <4>1, <4>2
        <5> QED  BY <1>1, <3>1, <4>2, <5>1
      <4>3. CASE j = Len(q) + 1
        <5>1. i \in 1 .. Len(q) \/ i = Len(q) + 1
          BY <4>1
        <5> QED  BY <3>1, <3>2, <4>3, <5>1
      <4> QED  BY <4>1, <4>2, <4>3
    <3>6. \A x \in Replica : x = r
      OBVIOUS
    <3> QED  BY <2>3, <3>4, <3>5, <3>6 DEF RegistersInOrder
  <2>4. \/ queue'[r]["register"] = q
        \/ \E k \in Instance : process[k] \in Running /\ queue'[r]["register"] = Append(q, k)
    <3>1. ASSUME NEW k \in Instance, ProcessStep(k)
          PROVE  \/ queue'[r]["register"] = q
                 \/ process[k] \in Running /\ queue'[r]["register"] = Append(q, k)
      <4>1. CASE Register(k) \/ Heartbeat(k) \/ Goodbye(k)
        <5>1. process[k] \in Running /\ \E s \in Subject : Publish(s, k)
          BY <4>1 DEF Register, Heartbeat, Goodbye, Goto, Running, Subject
        <5> QED  BY <1>0, <5>1, Published
      <4>2. CASE Start(k) \/ Crash(k)
        BY <4>2 DEF Start, Crash
      <4> QED  BY <3>1, <4>1, <4>2 DEF ProcessStep
    <3>2. ASSUME NEW x \in Replica, NEW s \in Subject, Handle(x, s) PROVE queue'[r]["register"] = q
      <4>1. s # "register"
        BY <1>4, <3>2
      <4> QED  BY <1>0, <3>2, <4>1 DEF Handle, TypeOK
    <3>3. ASSUME Tick \/ MarkExpired \/ \E x \in Request : RequestStep(x) PROVE UNCHANGED queue
      BY <3>3 DEF Tick, MarkExpired, RequestStep, LookUp, SetDraining, Confirm
    <3> QED  BY <3>1, <3>2, <3>3 DEF Next
  <2> QED  BY <2>2, <2>3, <2>4 DEF RegistersInOrder
<1> QED  BY <1>3, <1>4

\* Where one entry serves the subjects and no two runs overlap, the row never
\* goes back to an earlier run, whatever messages are lost, late or cut off by
\* a crash.
THEOREM LaterRunStays ==
  ASSUME ~Overlap, \A x, y \in Replica : x = y
  PROVE  Spec => LaterRunKeepsRow
<1>1. Init => SequentialInv
  <2>1. Init => RunsFollow /\ RegistersInOrder /\ RowStarted
    BY DEF Init, RunsFollow, RegistersInOrder, RowStarted, Subject
  <2> QED  BY <2>1, InitInv DEF SequentialInv
<1>2. SequentialInv /\ [Next]_vars => SequentialInv'
  <2>1. CASE UNCHANGED vars
    BY <2>1 DEF vars, SequentialInv, RegistryInv, TypeOK, LookedAtRow, RunsFollow, RegistersInOrder,
                RowStarted
  <2>2. ASSUME SequentialInv, Next PROVE SequentialInv'
    <3>1. RegistryInv' /\ RunsFollow'
      BY <2>2, StepKeepsInv, RunsStayApart DEF SequentialInv, RegistryInv
    <3>2. RegistersInOrder' /\ RowStarted'
      BY <2>2, RegistersStayInOrder, RowStaysStarted
    <3> QED  BY <3>1, <3>2 DEF SequentialInv
  <2> QED  BY <2>1, <2>2
<1>3. SequentialInv /\ [Next]_vars => [row # NoRow => row'.instance >= row.instance]_vars
  <2> SUFFICES ASSUME SequentialInv, Next, row # NoRow PROVE row'.instance >= row.instance
    OBVIOUS
  <2>1. row.instance \in Nat
    BY RowParts, RegistryAssumption DEF SequentialInv, RegistryInv
  <2>2. CASE row'.instance = row.instance
    BY <2>1, <2>2
  <2>3. ASSUME NEW r \in Replica, Handle(r, "register"), row'.instance = Head(queue[r]["register"])
        PROVE  row'.instance >= row.instance
    <3>1. queue[r]["register"] \in Seq(Instance) /\ queue[r]["register"] # << >>
      BY <2>3 DEF Handle, TypeOK, Subject, SequentialInv, RegistryInv
    <3>2. row'.instance = queue[r]["register"][1] /\ 1 \in 1 .. Len(queue[r]["register"])
          /\ row'.instance \in Nat
      <4>1. Head(queue[r]["register"]) = queue[r]["register"][1] /\ 1 \in 1 .. Len(queue[r]["register"])
        BY <3>1
      <4>2. queue[r]["register"][1] \in Instance
        BY <3>1, <4>1
      <4> QED  BY <2>3, <4>1, <4>2, RegistryAssumption
    <3> QED  BY <2>1, <3>2 DEF SequentialInv, RegistersInOrder
  <2> QED  BY <2>2, <2>3, RowMovesSo DEF RowMoves, SequentialInv
<1> QED  BY <1>1, <1>2, <1>3, PTL DEF Spec, LaterRunKeepsRow

=============================================================================

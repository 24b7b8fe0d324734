-------------------------- MODULE SearchIndex_proofs --------------------------
(***************************************************************************)
(* Proofs about SearchIndex, for any numbers of entry processes and of     *)
(* operations: the index may lag behind the store and go back, but shows   *)
(* nothing the store has not been through, and is never made by accident.  *)
(***************************************************************************)
EXTENDS SearchIndex, FiniteSetTheorems, TLAPS

\* A status is not ahead of a row that holds another.
NotAhead(shown, held) ==
  /\ held \in Status
  /\ statusRank[shown] <= statusRank[held]
  /\ statusRank[shown] = statusRank[held] => shown = held

\* A call holds what it has read of a row that is there.
CallsBehind ==
  \A c \in Caller :
    /\ call[c].at = "get" => status[call[c].op] \in Status
    /\ call[c].at = "index" => NotAhead(call[c].read, status[call[c].op])

\* So does a request that may be carried out late.
LateBehind == \A d \in late : NotAhead(d.status, status[d.op])

\* A job asks for the statuses that it writes.
JobCalls ==
  \A c \in Caller : c[1] = "job" /\ ~Free(c) => call[c].next \in DOMAIN AfterMiss

\* Before the first entry has made the index there is no operation to be indexed.
IndexFirst ==
  /\ mapping # "guessed"
  /\ mapping = "none" => /\ late = {}
                         /\ \A r \in Replica : entry[r] = "down"
                         /\ \A op \in Op : status[op] = Absent
                         /\ \A c \in Caller : call[c] = Idle

IndexInv ==
  /\ TypeOK
  /\ CallsBehind /\ LateBehind /\ JobCalls
  /\ IndexNeverAhead
  /\ IndexFirst

\* The first state.
LEMMA IndexInvInit == Init => IndexInv
<1> SUFFICES ASSUME Init PROVE IndexInv
  OBVIOUS
<1>1. TypeOK
  <2>1. client \in ClientState
    BY SearchAssumption DEF Init, Away, ClientState
  <2>2. StoreTypeOK
    BY StoreAssumption DEF Init, StoreInit, StoreTypeOK
  <2> QED
    BY <2>1, <2>2, SearchAssumption DEF Init, TypeOK, CallState, JobState
<1>2. CallsBehind /\ LateBehind /\ JobCalls /\ IndexNeverAhead /\ IndexFirst
  BY DEF Init, StoreInit, CallsBehind, LateBehind, JobCalls, IndexNeverAhead, IndexFirst, Idle, Free
<1> QED
  BY <1>1, <1>2 DEF IndexInv

-----------------------------------------------------------------------------
(* Types *)

\* The UPDATE of a status, and the call that goes on to read the row.
LEMMA AdvanceTypes ==
  ASSUME TypeOK, NEW c \in Caller, NEW op \in Op, NEW next \in Status, Advance(c, op, next)
  PROVE  /\ status' = [status EXCEPT ![op] = next] /\ status[op] \in Status
         /\ statusRank[status[op]] < statusRank[next] \/ next = status[op]
         /\ call' = [call EXCEPT ![c] = [at |-> "get", op |-> op, next |-> next]]
         /\ StoreTypeOK' /\ call' \in [Caller -> CallState] /\ missed' \subseteq Op
         /\ UNCHANGED << mapping, older, doc, late, entry, client >>
  BY DEF Advance, AdvanceStatus, CanAdvance, TypeOK, StoreTypeOK, CallState

\* The callers.
LEMMA Callers ==
  /\ \A r \in Replica : <<"results", r>> \in Caller
  /\ \A op \in Op : /\ <<"create", op>> \in Caller
                    /\ <<"dispatch", op>> \in Caller /\ <<"job", op>> \in Caller
  BY DEF Caller

\* The types of calls and of what they are about.
LEMMA CallTypes ==
  ASSUME TypeOK
  PROVE  /\ call \in [Caller -> CallState] /\ job \in [Op -> JobState]
         /\ status \in [Op -> Status \cup {Absent}]
         /\ \A c \in Caller : /\ Free(c) <=> call[c] = Idle
                              /\ ~Free(c) => call[c].op \in Op /\ call[c].next \in Status
                              /\ call[c].at = "index" => call[c].read \in Status
<1>1. call \in [Caller -> CallState] /\ job \in [Op -> JobState]
      /\ status \in [Op -> Status \cup {Absent}]
  BY DEF TypeOK, StoreTypeOK
<1>2. \A s \in CallState : /\ s.at = "idle" <=> s = Idle
                           /\ s.at # "idle" => s.op \in Op /\ s.next \in Status
                           /\ s.at = "index" => s.read \in Status
  BY DEF CallState, Idle
<1> QED
  BY <1>1, <1>2 DEF Free

\* Calls that come to nothing: what of them is left.
LEMMA Lost ==
  ASSUME TypeOK, NEW C \in SUBSET Caller, \A c \in C : ~Free(c), Lose(C)
  PROVE  /\ missed \subseteq missed' /\ missed' \subseteq Op
         /\ \A c \in C : call[c].op \in missed'
         /\ late \subseteq late' /\ late' \subseteq [op : Op, status : Status]
         /\ \A d \in late' \ late :
              \E c \in C : call[c].at = "index" /\ d.op = call[c].op /\ d.status = call[c].read
<1>1. PICK sent \in SUBSET { c \in C : call[c].at = "index" } :
        late' = late \cup { [op |-> call[c].op, status |-> call[c].read] : c \in sent }
  BY DEF Lose
<1>2. missed' = missed \cup { call[c].op : c \in C }
  BY DEF Lose
<1>3. \A c \in C : call[c].op \in Op /\ (call[c].at = "index" => call[c].read \in Status)
  BY CallTypes
<1>4. missed \subseteq Op /\ late \subseteq [op : Op, status : Status]
  BY DEF TypeOK
<1> QED
  BY <1>1, <1>2, <1>3, <1>4

\* The calls that end with a process of the entry: none of a worker.
LEMMA EndedCalls ==
  ASSUME NEW r \in Replica, EntryEnds(r)
  PROVE  \E C \in SUBSET Caller :
           /\ \A c \in C : ~Free(c) /\ c[1] # "job"
           /\ Lose(C)
           /\ call' = [c \in Caller |-> IF c \in C THEN Idle ELSE call[c]]
<1> DEFINE requests == { c \in Caller : c[1] \in { "create", "dispatch" } /\ ~Free(c) }
           own == { c \in { <<"results", r>> } : ~Free(c) }
<1>1. PICK served \in SUBSET requests :
        /\ Lose(own \cup served)
        /\ call' = [c \in Caller |-> IF c \in own \cup served THEN Idle ELSE call[c]]
  BY DEF EntryEnds
<1>2. own \cup served \in SUBSET Caller
  BY Callers
<1>3. \A c \in own \cup served : ~Free(c) /\ c[1] # "job"
  OBVIOUS
<1> QED
  BY <1>1, <1>2, <1>3

\* What a job does that has not written its status.
LEMMA MissTypes ==
  ASSUME TypeOK, NEW op \in Op, NEW next \in DOMAIN AfterMiss, Miss(op, next)
  PROVE  /\ job' \in [Op -> JobState] /\ \A o \in Op \ {op} : job'[o] = job[o]
         /\ job'[op] = AfterMiss[next]
         /\ results' \subseteq [op : Op, status : Status]
         /\ UNCHANGED results \/ (Report(op, next) /\ next \in Reported)
<1>1. /\ AfterMiss[next] \in JobState /\ next \in Status
      /\ AfterMiss[next] = next => next \in Reported
  BY DEF AfterMiss, JobState, Status, Reported
<1>2. job' = [job EXCEPT ![op] = AfterMiss[next]] /\ job \in [Op -> JobState]
  BY DEF Miss, TypeOK
<1>3. (AfterMiss[next] = next /\ Report(op, next)) \/ UNCHANGED results
  BY DEF Miss
<1> QED
  BY <1>1, <1>2, <1>3 DEF Report, TypeOK

\* Each step keeps the types; what is read of a row that is there is a status.
LEMMA StepTypes ==
  ASSUME TypeOK, CallsBehind, JobCalls, Next
  PROVE  TypeOK'
<1> USE DEF indexVars, storeVars
<1>1. ASSUME NEW r \in Replica, StartEntry(r) PROVE TypeOK'
  BY <1>1 DEF StartEntry, EnsureIndex, TypeOK, StoreTypeOK
<1>2. ASSUME NEW r \in Replica, NEW res \in results, HandleResult(r, res) PROVE TypeOK'
  <2>1. res.op \in Op /\ res.status \in Status
    BY DEF TypeOK
  <2> QED
    BY <1>2, <2>1, Callers, AdvanceTypes DEF HandleResult, Advance, TypeOK
<1>3. ASSUME NEW op \in Op, CreateUpdate(op) PROVE TypeOK'
  <2>1. [at |-> "index", op |-> op, next |-> "PENDING", read |-> "PENDING"] \in CallState
    BY DEF CallState, Status
  <2>2. StoreTypeOK'
    BY <1>3 DEF CreateUpdate, CreateRow, TypeOK, StoreTypeOK, Status
  <2> QED
    BY <1>3, <2>1, <2>2, Callers DEF CreateUpdate, TypeOK
<1>4. ASSUME NEW op \in Op, DispatchOperation(op) PROVE TypeOK'
  BY <1>4, Callers, AdvanceTypes DEF DispatchOperation, Advance, TypeOK, Status
<1>5. ASSUME NEW op \in Op, Claim(op) \/ ReportTransferred(op) \/ ReportSucceeded(op) PROVE TypeOK'
  <2>1. job' \in [Op -> JobState]
    BY <1>5 DEF Claim, ReportTransferred, ReportSucceeded, TypeOK, JobState, Status
  <2>2. results' \subseteq [op : Op, status : Status]
    BY <1>5 DEF Claim, ReportTransferred, ReportSucceeded, Report, TypeOK, Status
  <2>3. StoreTypeOK'
    BY <1>5 DEF Claim, ClaimForExecution, ReportTransferred, ReportSucceeded, TypeOK, StoreTypeOK,
         Status
  <2> QED
    BY <1>5, <2>1, <2>2, <2>3 DEF Claim, ReportTransferred, ReportSucceeded, TypeOK
<1>6. ASSUME NEW op \in Op, WriteStatus(op) PROVE TypeOK'
  <2>1. PICK next \in WritesNext[job[op]] :
          Advance(<<"job", op>>, op, next) /\ job' = [job EXCEPT ![op] = next]
    BY <1>6 DEF WriteStatus
  <2>2. next \in Status
    BY <1>6, <2>1 DEF WriteStatus, WritesNext, Status
  <2> QED
    BY <1>6, <2>1, <2>2, Callers, AdvanceTypes DEF WriteStatus, Advance, TypeOK, JobState
<1>7. ASSUME NEW op \in Op, FailExecution(op) PROVE TypeOK'
  BY <1>7, Callers, AdvanceTypes DEF FailExecution, Advance, TypeOK, Status, JobState
<1>8. ASSUME NEW op \in Op, WorkerEnds(op) PROVE TypeOK'
  <2>1. missed' \subseteq Op /\ late' \subseteq [op : Op, status : Status]
    BY <1>8, Callers, Lost DEF WorkerEnds
  <2>2. "over" \in JobState /\ Idle \in CallState
    BY DEF JobState, CallState
  <2> QED
    BY <1>8, <2>1, <2>2 DEF WorkerEnds, TypeOK, StoreTypeOK
<1>9. CASE Monitor
  BY <1>9 DEF Monitor, Reap, TypeOK, StoreTypeOK, Status
<1>10. ASSUME NEW c \in Caller, Get(c) PROVE TypeOK'
  <2>1. call[c].op \in Op /\ call[c].next \in Status
    BY <1>10 DEF Get, TypeOK, CallState, Idle
  <2>2. status[call[c].op] \in Status
    BY <1>10 DEF Get, CallsBehind
  <2> QED
    BY <1>10, <2>1, <2>2 DEF Get, TypeOK, StoreTypeOK, CallState
<1>11. ASSUME NEW c \in Caller, IndexOperation(c) PROVE TypeOK'
  <2>1. call[c].op \in Op /\ call[c].read \in Status /\ call[c].next \in Status
    BY <1>11 DEF IndexOperation, TypeOK, CallState, Idle
  <2>2. call' \in [Caller -> CallState] /\ job' \in [Op -> JobState]
        /\ results' \subseteq [op : Op, status : Status]
    BY <1>11, <2>1 DEF IndexOperation, Return, Report, TypeOK, CallState, JobState, Status
  <2>3. missed' \subseteq Op /\ late' \subseteq [op : Op, status : Status]
    <3>1. ~Free(c)
      BY <1>11 DEF IndexOperation, Free
    <3>2. CASE Lose({c})
      BY <3>1, <3>2, Lost
    <3>3. CASE UNCHANGED << missed, late >>
      BY <3>3 DEF TypeOK
    <3> QED
      BY <1>11, <3>2, <3>3 DEF IndexOperation
  <2>4. doc' \in [Op -> Status \cup {Absent}] /\ mapping' \in { "none", "explicit", "guessed" }
    BY <1>11, <2>1 DEF IndexOperation, Write, TypeOK
  <2> QED
    BY <1>11, <2>2, <2>3, <2>4 DEF IndexOperation, TypeOK, StoreTypeOK
<1>12. CASE Search
  BY <1>12, SearchAssumption DEF Search, TypeOK, StoreTypeOK, ClientState
<1>13. CASE NextPage
  <2>1. Older(client.filter) \subseteq 1 .. History
    BY SearchAssumption DEF Older, TypeOK
  <2>2. UNCHANGED << storeVars, indexVars, entry, call, job, results >>
    BY <1>13 DEF NextPage
  <2>3. client' \in ClientState
    <3>1. CASE client' = [client EXCEPT !.at = "done"]
      BY <3>1 DEF TypeOK, ClientState
    <3>2. Away \in ClientState
      BY SearchAssumption DEF Away, ClientState
    <3> DEFINE offset == Offset(client.page, client.limit)
               shown == { h \in Older(client.filter) :
                            Position(client.filter, h) \in offset + 1 .. offset + Clamp(client.limit) }
    <3>3. \/ client' = [client EXCEPT !.at = "done"]
          \/ client' = [client EXCEPT !.page = @ + 1, !.seen = @ \cup shown]
          \/ client' = Away
      BY <1>13 DEF NextPage
    <3>4. shown \in SUBSET Older(client.filter)
      OBVIOUS
    <3> HIDE DEF offset, shown
    <3>5. CASE client' = [client EXCEPT !.page = @ + 1, !.seen = @ \cup shown]
      <4>1. client.page + 1 \in Nat \ {0} /\ client.seen \cup shown \in SUBSET (1 .. History)
        BY <2>1, <3>4 DEF TypeOK, ClientState
      <4> QED
        BY <3>5, <4>1 DEF TypeOK, ClientState
    <3> QED
      BY <3>1, <3>2, <3>3, <3>5
  <2> QED
    BY <2>2, <2>3 DEF TypeOK, StoreTypeOK
<1>14. ASSUME NEW c \in Caller, GetFails(c) PROVE TypeOK'
  <2>1. call' \in [Caller -> CallState]
    BY <1>14 DEF GetFails, TypeOK, CallState
  <2>2. missed' \subseteq Op /\ late' \subseteq [op : Op, status : Status]
    BY <1>14, Lost DEF GetFails, Free
  <2>3. job' \in [Op -> JobState] /\ results' \subseteq [op : Op, status : Status]
    <3>1. CASE UNCHANGED << job, results >>
      BY <3>1 DEF TypeOK
    <3>2. CASE ~UNCHANGED << job, results >>
      <4>1. /\ c[1] = "job" /\ ~Free(c) /\ call[c].op \in Op
            /\ Miss(call[c].op, call[c].next)
        BY <1>14, <3>2, CallTypes DEF GetFails, Free
      <4> QED
        BY <4>1, MissTypes DEF JobCalls
    <3> QED
      BY <3>1, <3>2
  <2> QED
    BY <1>14, <2>1, <2>2, <2>3 DEF GetFails, TypeOK, StoreTypeOK
<1>15. ASSUME NEW r \in Replica, EntryEnds(r) PROVE TypeOK'
  <2>1. PICK C \in SUBSET Caller :
          /\ \A c \in C : ~Free(c)
          /\ Lose(C)
          /\ call' = [c \in Caller |-> IF c \in C THEN Idle ELSE call[c]]
    BY <1>15, EndedCalls
  <2>2. missed' \subseteq Op /\ late' \subseteq [op : Op, status : Status]
    BY <2>1, Lost
  <2>3. call' \in [Caller -> CallState]
    BY <2>1 DEF TypeOK, CallState
  <2> QED
    BY <1>15, <2>2, <2>3 DEF EntryEnds, TypeOK, StoreTypeOK
<1>16. ASSUME NEW op \in Op, MissStatus(op) PROVE TypeOK'
  <2>1. PICK next \in WritesNext[job[op]] : Miss(op, next) /\ job[op] \in DOMAIN WritesNext
    BY <1>16 DEF MissStatus
  <2>2. next \in DOMAIN AfterMiss
    BY <2>1 DEF WritesNext, AfterMiss
  <2> QED
    BY <1>16, <2>1, <2>2, MissTypes DEF MissStatus, TypeOK, StoreTypeOK
<1>17. CASE IndexLate
  <2>1. PICK d \in late : Write(d.op, d.status)
    BY <1>17 DEF IndexLate
  <2>2. d.op \in Op /\ d.status \in Status
    BY <2>1 DEF TypeOK
  <2> QED
    BY <1>17, <2>1, <2>2 DEF IndexLate, Write, TypeOK, StoreTypeOK
<1> QED
  BY <1>1, <1>2, <1>3, <1>4, <1>5, <1>6, <1>7, <1>8, <1>9, <1>10, <1>11, <1>12, <1>13, <1>14,
     <1>15, <1>16, <1>17 DEF Next, JobStep, CallStep

-----------------------------------------------------------------------------
(* What is indexed was read *)

\* What a step may do to the status of an operation that has a row.
StatusMoves ==
  \A op \in Op : status[op] \in Status =>
    /\ status'[op] \in Status
    /\ status'[op] = status[op] \/ statusRank[status[op]] < statusRank[status'[op]]

\* The ranks are numbers.
LEMMA Ranks == \A st \in Status : statusRank[st] \in Nat
  BY DEF Status, statusRank

\* What is behind a row stays behind it.
LEMMA StaysBehind ==
  ASSUME StatusMoves, NEW op \in Op, NEW shown \in Status, NotAhead(shown, status[op])
  PROVE  NotAhead(shown, status'[op])
<1>1. status'[op] \in Status /\ (status'[op] = status[op] \/ statusRank[status[op]] < statusRank[status'[op]])
  BY DEF NotAhead, StatusMoves
<1>2. /\ statusRank[shown] \in Nat /\ statusRank[status[op]] \in Nat /\ statusRank[status'[op]] \in Nat
  BY <1>1, Ranks DEF NotAhead
<1> QED
  BY <1>1, <1>2 DEF NotAhead

\* The UPDATE of a status moves the row it matches.
LEMMA AdvanceMoves ==
  ASSUME TypeOK, NEW c \in Caller, NEW op \in Op, NEW next \in Status, Advance(c, op, next)
  PROVE  StatusMoves
<1>1. /\ status' = [status EXCEPT ![op] = next] /\ status[op] \in Status
      /\ statusRank[status[op]] < statusRank[next] \/ next = status[op]
  BY AdvanceTypes
<1> QED
  BY <1>1 DEF StatusMoves, TypeOK, StoreTypeOK

\* No step takes a status back.
LEMMA StepMoves ==
  ASSUME TypeOK, Next
  PROVE  StatusMoves
<1> USE DEF storeVars
<1>0. status \in [Op -> Status \cup {Absent}] /\ Absent \notin Status
  BY DEF TypeOK, StoreTypeOK, Absent, Status
<1>1. CASE UNCHANGED status
  BY <1>1 DEF StatusMoves
<1>2. ASSUME NEW r \in Replica, NEW res \in results, HandleResult(r, res) PROVE StatusMoves
  <2>1. res.op \in Op /\ res.status \in Status
    BY DEF TypeOK
  <2> QED
    BY <1>2, <2>1, Callers, AdvanceMoves DEF HandleResult
<1>3. ASSUME NEW op \in Op, CreateUpdate(op) PROVE StatusMoves
  BY <1>0, <1>3 DEF CreateUpdate, CreateRow, StatusMoves
<1>4. ASSUME NEW op \in Op, DispatchOperation(op) PROVE StatusMoves
  BY <1>4, Callers, AdvanceMoves DEF DispatchOperation, Status
<1>5. ASSUME NEW op \in Op, Claim(op) PROVE StatusMoves
  BY <1>0, <1>5 DEF Claim, ClaimForExecution, StatusMoves, Status, statusRank
<1>6. ASSUME NEW op \in Op, WriteStatus(op) PROVE StatusMoves
  <2>1. PICK next \in WritesNext[job[op]] : Advance(<<"job", op>>, op, next)
    BY <1>6 DEF WriteStatus
  <2>2. next \in Status
    BY <1>6, <2>1 DEF WriteStatus, WritesNext, Status
  <2> QED
    BY <2>1, <2>2, Callers, AdvanceMoves
<1>7. ASSUME NEW op \in Op, FailExecution(op) PROVE StatusMoves
  BY <1>7, Callers, AdvanceMoves DEF FailExecution, Status
<1>8. CASE Monitor
  <2>1. PICK expired \in SUBSET Op : Reap(expired)
    BY <1>8 DEF Monitor
  <2>2. \A st \in Reapable : statusRank[st] < statusRank["FAILED"]
    BY DEF Reapable, statusRank
  <2> QED
    BY <2>1, <2>2 DEF Reap, StatusMoves, Status
<1>9. ASSUME NEW r \in Replica, StartEntry(r) PROVE UNCHANGED status
  BY <1>9 DEF StartEntry
<1>10. ASSUME NEW op \in Op, ReportTransferred(op) \/ ReportSucceeded(op) \/ WorkerEnds(op)
       PROVE  UNCHANGED status
  BY <1>10 DEF ReportTransferred, ReportSucceeded, WorkerEnds
<1>11. ASSUME NEW c \in Caller, CallStep(c) PROVE UNCHANGED status
  BY <1>11 DEF CallStep, Get, GetFails, IndexOperation
<1>12. ASSUME Search \/ NextPage \/ IndexLate PROVE UNCHANGED status
  BY <1>12 DEF Search, NextPage, IndexLate
<1>13. ASSUME NEW r \in Replica, EntryEnds(r) PROVE UNCHANGED status
  BY <1>13 DEF EntryEnds
<1>14. ASSUME NEW op \in Op, MissStatus(op) PROVE UNCHANGED status
  BY <1>14 DEF MissStatus
<1> QED
  BY <1>1, <1>2, <1>3, <1>4, <1>5, <1>6, <1>7, <1>8, <1>9, <1>10, <1>11, <1>12, <1>13, <1>14
     DEF Next, JobStep

\* What a call becomes: one that has read nothing yet, or has just read, or has
\* just inserted the row, or is the same.
CallMoves ==
  \A c \in Caller :
    \/ call'[c] = call[c]
    \/ call'[c] = Idle
    \/ call'[c].at = "get" /\ call'[c].op \in Op /\ status'[call'[c].op] \in Status
    \/ /\ call'[c].at = "index" /\ call'[c].read \in Status
       /\ status'[call'[c].op] = call'[c].read

\* Calls move in one of these ways.
LEMMA StepCalls ==
  ASSUME TypeOK, CallsBehind, Next
  PROVE  CallMoves
<1> USE DEF storeVars
<1>0. call \in [Caller -> CallState] /\ status \in [Op -> Status \cup {Absent}]
  BY DEF TypeOK, StoreTypeOK
<1>1. CASE UNCHANGED call
  BY <1>1 DEF CallMoves
<1>2. ASSUME NEW c \in Caller, NEW op \in Op, NEW next \in Status, Advance(c, op, next)
      PROVE  CallMoves
  BY <1>0, <1>2, AdvanceTypes DEF CallMoves
<1>3. ASSUME NEW r \in Replica, NEW res \in results, HandleResult(r, res) PROVE CallMoves
  <2>1. res.op \in Op /\ res.status \in Status
    BY DEF TypeOK
  <2> QED
    BY <1>2, <1>3, <2>1, Callers DEF HandleResult
<1>4. ASSUME NEW op \in Op, DispatchOperation(op) \/ FailExecution(op) PROVE CallMoves
  BY <1>2, <1>4, Callers DEF DispatchOperation, FailExecution, Status
<1>5. ASSUME NEW op \in Op, WriteStatus(op) PROVE CallMoves
  <2>1. PICK next \in WritesNext[job[op]] : Advance(<<"job", op>>, op, next)
    BY <1>5 DEF WriteStatus
  <2>2. next \in Status
    BY <1>5, <2>1 DEF WriteStatus, WritesNext, Status
  <2> QED
    BY <1>2, <2>1, <2>2, Callers
<1>6. ASSUME NEW op \in Op, CreateUpdate(op) PROVE CallMoves
  BY <1>0, <1>6, Callers DEF CreateUpdate, CreateRow, CallMoves, Status
<1>7. ASSUME NEW c \in Caller, Get(c) PROVE CallMoves
  <2>1. status[call[c].op] \in Status
    BY <1>7 DEF Get, CallsBehind
  <2> QED
    BY <1>0, <1>7, <2>1 DEF Get, CallMoves
<1>8. ASSUME NEW c \in Caller, IndexOperation(c) \/ GetFails(c) PROVE CallMoves
  BY <1>0, <1>8 DEF IndexOperation, Return, GetFails, CallMoves
<1>9. ASSUME NEW op \in Op, WorkerEnds(op) PROVE CallMoves
  BY <1>0, <1>9 DEF WorkerEnds, CallMoves
<1>10. ASSUME NEW op \in Op, Claim(op) \/ ReportTransferred(op) \/ ReportSucceeded(op) PROVE UNCHANGED call
  BY <1>10 DEF Claim, ReportTransferred, ReportSucceeded
<1>11. ASSUME NEW r \in Replica, StartEntry(r) PROVE UNCHANGED call
  BY <1>11 DEF StartEntry
<1>12. ASSUME Monitor \/ Search \/ NextPage \/ IndexLate PROVE UNCHANGED call
  BY <1>12 DEF Monitor, Search, NextPage, IndexLate
<1>13. ASSUME NEW r \in Replica, EntryEnds(r) PROVE CallMoves
  BY <1>13, EndedCalls DEF CallMoves
<1>14. ASSUME NEW op \in Op, MissStatus(op) PROVE UNCHANGED call
  BY <1>14 DEF MissStatus
<1> QED
  BY <1>1, <1>2, <1>3, <1>4, <1>5, <1>6, <1>7, <1>8, <1>9, <1>10, <1>11, <1>12, <1>13, <1>14
     DEF Next, JobStep, CallStep

\* A call of a job keeps to the statuses that the job writes.
LEMMA JobCallsStay ==
  ASSUME TypeOK, JobCalls, Next
  PROVE  JobCalls'
<1>0. call \in [Caller -> CallState]
  BY DEF TypeOK
<1>1. ASSUME \A c \in Caller : c[1] = "job" => call'[c] = call[c] \/ call'[c] = Idle
      PROVE  JobCalls'
  BY <1>1 DEF JobCalls, Free, Idle
<1>2. ASSUME NEW c \in Caller, NEW op, NEW next, Advance(c, op, next),
             c[1] = "job" => next \in DOMAIN AfterMiss
      PROVE  JobCalls'
  <2>1. call' = [call EXCEPT ![c] = [at |-> "get", op |-> op, next |-> next]]
    BY <1>2 DEF Advance
  <2>2. ASSUME NEW d \in Caller, d[1] = "job", ~Free(d)' PROVE call'[d].next \in DOMAIN AfterMiss
    <3>1. CASE d = c
      BY <1>0, <1>2, <2>1, <2>2, <3>1
    <3>2. CASE d # c
      BY <1>0, <2>1, <2>2, <3>2 DEF JobCalls, Free
    <3> QED
      BY <3>1, <3>2
  <2> QED
    BY <2>2 DEF JobCalls
<1>3. ASSUME NEW r \in Replica, NEW res \in results, HandleResult(r, res) PROVE JobCalls'
  BY <1>2, <1>3, Callers DEF HandleResult
<1>4. ASSUME NEW op \in Op, DispatchOperation(op) PROVE JobCalls'
  BY <1>2, <1>4, Callers DEF DispatchOperation
<1>5. ASSUME NEW op \in Op, WriteStatus(op) \/ FailExecution(op) PROVE JobCalls'
  <2>1. PICK next \in DOMAIN AfterMiss : Advance(<<"job", op>>, op, next)
    BY <1>5 DEF WriteStatus, WritesNext, FailExecution, AfterMiss
  <2> QED
    BY <1>2, <2>1, Callers
<1>6. ASSUME NEW op \in Op, CreateUpdate(op) PROVE JobCalls'
  BY <1>0, <1>1, <1>6 DEF CreateUpdate
<1>7. ASSUME NEW c \in Caller, Get(c) PROVE JobCalls'
  BY <1>0, <1>7 DEF Get, JobCalls, Free
<1>8. ASSUME NEW c \in Caller, IndexOperation(c) \/ GetFails(c) PROVE JobCalls'
  BY <1>0, <1>1, <1>8 DEF IndexOperation, Return, GetFails
<1>9. ASSUME NEW op \in Op, WorkerEnds(op) PROVE JobCalls'
  BY <1>0, <1>1, <1>9 DEF WorkerEnds
<1>10. ASSUME NEW op \in Op,
              Claim(op) \/ ReportTransferred(op) \/ ReportSucceeded(op) \/ MissStatus(op)
       PROVE  JobCalls'
  BY <1>1, <1>10 DEF Claim, ReportTransferred, ReportSucceeded, MissStatus
<1>11. ASSUME NEW r \in Replica, StartEntry(r) \/ EntryEnds(r) PROVE JobCalls'
  BY <1>1, <1>11, EndedCalls DEF StartEntry
<1>12. ASSUME Monitor \/ Search \/ NextPage \/ IndexLate PROVE JobCalls'
  BY <1>1, <1>12 DEF Monitor, Search, NextPage, IndexLate
<1> QED
  BY <1>3, <1>4, <1>5, <1>6, <1>7, <1>8, <1>9, <1>10, <1>11, <1>12 DEF Next, JobStep, CallStep

\* Where what a step puts in the index, or leaves to be put there late, comes from.
LEMMA StepIndexes ==
  ASSUME TypeOK, Next
  PROVE  /\ \A op \in Op : doc'[op] # doc[op] =>
              \/ \E c \in Caller : call[c].at = "index" /\ call[c].op = op /\ doc'[op] = call[c].read
              \/ \E d \in late : d.op = op /\ doc'[op] = d.status
         /\ late \subseteq late'
         /\ \A d \in late' \ late : \E c \in Caller :
              call[c].at = "index" /\ d.op = call[c].op /\ d.status = call[c].read
<1> USE DEF indexVars
<1> DEFINE Comes == /\ \A op \in Op : doc'[op] # doc[op] =>
                         \/ \E c \in Caller : call[c].at = "index" /\ call[c].op = op /\ doc'[op] = call[c].read
                         \/ \E d \in late : d.op = op /\ doc'[op] = d.status
                    /\ late \subseteq late'
                    /\ \A d \in late' \ late : \E c \in Caller :
                         call[c].at = "index" /\ d.op = call[c].op /\ d.status = call[c].read
<1>1. ASSUME UNCHANGED << doc, late >> PROVE Comes
  BY <1>1
<1>2. ASSUME NEW C \in SUBSET Caller, \A c \in C : ~Free(c), Lose(C), UNCHANGED doc PROVE Comes
  BY <1>2, Lost
<1>3. ASSUME NEW c \in Caller, IndexOperation(c) PROVE Comes
  <2>1. CASE Lose({c}) /\ UNCHANGED doc
    BY <1>2, <1>3, <2>1 DEF IndexOperation, Free
  <2>2. CASE Write(call[c].op, call[c].read) /\ UNCHANGED late
    <3>1. doc' = [doc EXCEPT ![call[c].op] = call[c].read] /\ call[c].at = "index"
      BY <1>3, <2>2 DEF IndexOperation, Write
    <3>2. \A op \in Op : doc'[op] # doc[op] => call[c].op = op /\ doc'[op] = call[c].read
      BY <3>1 DEF TypeOK
    <3> QED
      BY <2>2, <3>1, <3>2
  <2> QED
    BY <1>3, <2>1, <2>2 DEF IndexOperation
<1>4. ASSUME NEW c \in Caller, GetFails(c) PROVE Comes
  BY <1>2, <1>4 DEF GetFails, Free
<1>5. ASSUME NEW r \in Replica, EntryEnds(r) PROVE Comes
  BY <1>2, <1>5, EndedCalls DEF EntryEnds
<1>6. ASSUME NEW op \in Op, WorkerEnds(op) PROVE Comes
  BY <1>2, <1>6, Callers DEF WorkerEnds
<1>7. CASE IndexLate
  <2>1. PICK d \in late : doc' = [doc EXCEPT ![d.op] = d.status]
    BY <1>7 DEF IndexLate, Write
  <2>2. \A op \in Op : doc'[op] # doc[op] => d.op = op /\ doc'[op] = d.status
    BY <2>1 DEF TypeOK
  <2> QED
    BY <1>7, <2>1, <2>2 DEF IndexLate
<1>8. ASSUME NEW c \in Caller, NEW op, NEW next, Advance(c, op, next) PROVE UNCHANGED << doc, late >>
  BY <1>8 DEF Advance
<1>9. ASSUME NEW op \in Op, WriteStatus(op) \/ FailExecution(op) \/ DispatchOperation(op)
      PROVE  UNCHANGED << doc, late >>
  BY <1>8, <1>9, Callers DEF WriteStatus, FailExecution, DispatchOperation
<1>10. ASSUME NEW r \in Replica, StartEntry(r) \/ \E res \in results : HandleResult(r, res)
       PROVE  UNCHANGED << doc, late >>
  BY <1>8, <1>10, Callers DEF StartEntry, HandleResult
<1>11. ASSUME NEW op \in Op, CreateUpdate(op) \/ Claim(op) \/ ReportTransferred(op)
                              \/ ReportSucceeded(op) \/ MissStatus(op)
       PROVE  UNCHANGED << doc, late >>
  BY <1>11 DEF CreateUpdate, Claim, ReportTransferred, ReportSucceeded, MissStatus
<1>12. ASSUME NEW c \in Caller, Get(c) PROVE UNCHANGED << doc, late >>
  BY <1>12 DEF Get
<1>13. ASSUME Monitor \/ Search \/ NextPage PROVE UNCHANGED << doc, late >>
  BY <1>13 DEF Monitor, Search, NextPage
<1> QED
  BY <1>1, <1>3, <1>4, <1>5, <1>6, <1>7, <1>9, <1>10, <1>11, <1>12, <1>13 DEF Next, JobStep, CallStep

\* Calls stay behind the rows they have read.
LEMMA CallsStayBehind ==
  ASSUME TypeOK, CallsBehind, Next
  PROVE  CallsBehind'
<1> SUFFICES ASSUME NEW c \in Caller
             PROVE  /\ call'[c].at = "get" => status'[call'[c].op] \in Status
                    /\ call'[c].at = "index" => NotAhead(call'[c].read, status'[call'[c].op])
  BY DEF CallsBehind, NotAhead
<1>1. StatusMoves /\ CallMoves
  BY StepMoves, StepCalls
<1>2. CASE call'[c] = call[c]
  <2>1. CASE call[c].at = "get"
    <3>1. call[c].op \in Op
      BY <2>1 DEF TypeOK, CallState, Idle
    <3> QED
      BY <1>1, <1>2, <2>1, <3>1 DEF StatusMoves, CallsBehind
  <2>2. CASE call[c].at = "index"
    <3>1. call[c].op \in Op /\ call[c].read \in Status
      BY <2>2 DEF TypeOK, CallState, Idle
    <3> QED
      BY <1>1, <1>2, <2>2, <3>1, StaysBehind DEF CallsBehind
  <2> QED
    BY <1>2, <2>1, <2>2
<1>3. CASE call'[c] = Idle
  BY <1>3 DEF Idle
<1>4. CASE call'[c].at = "get" /\ call'[c].op \in Op /\ status'[call'[c].op] \in Status
  BY <1>4
<1>5. CASE call'[c].at = "index" /\ call'[c].read \in Status /\ status'[call'[c].op] = call'[c].read
  BY <1>5, Ranks DEF NotAhead
<1> QED
  BY <1>1, <1>2, <1>3, <1>4, <1>5 DEF CallMoves

\* So do requests that may be carried out late.
LEMMA LateStaysBehind ==
  ASSUME TypeOK, CallsBehind, LateBehind, Next
  PROVE  LateBehind'
<1> SUFFICES ASSUME NEW d \in late' PROVE NotAhead(d.status, status'[d.op])
  BY DEF LateBehind, NotAhead
<1>1. d.op \in Op /\ d.status \in Status /\ NotAhead(d.status, status[d.op])
  <2>1. CASE d \in late
    BY <2>1 DEF TypeOK, LateBehind
  <2>2. CASE d \notin late
    BY <2>2, StepIndexes, CallTypes DEF CallsBehind, Free
  <2> QED
    BY <2>1, <2>2
<1> QED
  BY <1>1, StepMoves, StaysBehind

\* And the index.
LEMMA IndexStaysBehind ==
  ASSUME TypeOK, CallsBehind, LateBehind, IndexNeverAhead, Next
  PROVE  IndexNeverAhead'
<1> SUFFICES ASSUME NEW op \in Op, doc'[op] # Absent PROVE NotAhead(doc'[op], status'[op])
  BY DEF IndexNeverAhead, NotAhead
<1>1. StatusMoves
  BY StepMoves
<1>2. CASE doc'[op] = doc[op]
  <2>1. doc[op] \in Status /\ NotAhead(doc[op], status[op])
    BY <1>2 DEF TypeOK, IndexNeverAhead, NotAhead
  <2> QED
    BY <1>1, <1>2, <2>1, StaysBehind
<1>3. CASE doc'[op] # doc[op]
  <2>1. CASE \E c \in Caller : call[c].at = "index" /\ call[c].op = op /\ doc'[op] = call[c].read
    BY <1>1, <2>1, CallTypes, StaysBehind DEF CallsBehind
  <2>2. CASE \E d \in late : d.op = op /\ doc'[op] = d.status
    <3>1. PICK d \in late : d.op = op /\ doc'[op] = d.status
      BY <2>2
    <3>2. d.status \in Status /\ NotAhead(d.status, status[op])
      BY <3>1 DEF TypeOK, LateBehind
    <3> QED
      BY <1>1, <3>1, <3>2, StaysBehind
  <2> QED
    BY <1>3, <2>1, <2>2, StepIndexes
<1> QED
  BY <1>2, <1>3

\* The index is there before anything is indexed.
LEMMA IndexStaysFirst ==
  ASSUME TypeOK, IndexFirst, Next
  PROVE  IndexFirst'
<1> USE DEF storeVars, indexVars
<1>1. CASE mapping # "none"
  <2>1. mapping' = mapping
    BY <1>1, Callers DEF Next, StartEntry, EnsureIndex, EntryEnds, HandleResult, Advance, CreateUpdate,
         DispatchOperation, JobStep, Claim, ReportTransferred, WriteStatus, MissStatus, ReportSucceeded,
         FailExecution, WorkerEnds, Monitor, CallStep, Get, GetFails, IndexOperation, IndexLate, Write,
         Search, NextPage
  <2> QED
    BY <1>1, <2>1 DEF IndexFirst
<1>2. CASE mapping = "none"
  <2>1. /\ \A r \in Replica : entry[r] # "up"
        /\ \A op \in Op : status[op] \notin Status
        /\ \A c \in Caller : call[c].at = "idle" /\ call[c] = Idle
        /\ late = {}
    BY <1>2 DEF IndexFirst, Absent, Status, Idle
  <2>2. ASSUME NEW r \in Replica, StartEntry(r) PROVE IndexFirst'
    BY <1>2, <2>2 DEF StartEntry, EnsureIndex, IndexFirst
  <2>3. ASSUME NEW c \in Caller, NEW op \in Op, NEW next, Advance(c, op, next) PROVE FALSE
    BY <2>1, <2>3 DEF Advance, AdvanceStatus, CanAdvance
  <2>4. ASSUME NEW r \in Replica, NEW res \in results, HandleResult(r, res) PROVE FALSE
    BY <2>1, <2>4 DEF HandleResult
  <2>5. ASSUME NEW op \in Op, CreateUpdate(op) \/ Claim(op) PROVE FALSE
    BY <2>1, <2>5 DEF CreateUpdate, Serving, Claim, ClaimForExecution, Status
  <2>6. ASSUME NEW op \in Op, DispatchOperation(op) \/ WriteStatus(op) \/ FailExecution(op) PROVE FALSE
    BY <2>3, <2>6, Callers DEF DispatchOperation, WriteStatus, FailExecution
  <2>7. ASSUME NEW op \in Op, ReportTransferred(op) \/ ReportSucceeded(op) PROVE IndexFirst'
    BY <2>7 DEF ReportTransferred, ReportSucceeded, IndexFirst
  <2>8. ASSUME NEW op \in Op, WorkerEnds(op) PROVE IndexFirst'
    <3>1. /\ { c \in { <<"job", op>> } : ~Free(c) } = {}
          /\ Lose({ c \in { <<"job", op>> } : ~Free(c) })
          /\ call' = [call EXCEPT ![<<"job", op>>] = Idle]
          /\ UNCHANGED << mapping, entry, status >>
      BY <2>1, <2>8, Callers DEF WorkerEnds, Free
    <3>2. late' = late
      BY <3>1 DEF Lose
    <3>3. \A c \in Caller : call'[c] = Idle
      BY <2>1, <3>1 DEF TypeOK
    <3> QED
      BY <1>2, <3>1, <3>2, <3>3 DEF IndexFirst
  <2>9. ASSUME Monitor PROVE IndexFirst'
    <3>1. PICK expired \in SUBSET Op : Reap(expired)
      BY <2>9 DEF Monitor
    <3>2. \A op \in expired : status[op] \in Status
      BY <3>1 DEF Reap, Reapable, Status
    <3> QED
      BY <2>1, <3>1, <3>2 DEF Reap
  <2>10. ASSUME NEW c \in Caller, CallStep(c) PROVE FALSE
    BY <2>1, <2>10 DEF CallStep, Get, GetFails, IndexOperation
  <2>11. ASSUME Search \/ NextPage PROVE IndexFirst'
    BY <2>11 DEF Search, NextPage, IndexFirst
  <2>12. ASSUME NEW op \in Op, MissStatus(op) PROVE IndexFirst'
    BY <2>12 DEF MissStatus, IndexFirst
  <2>13. ASSUME IndexLate \/ \E r \in Replica : EntryEnds(r) PROVE FALSE
    BY <2>1, <2>13 DEF IndexLate, EntryEnds
  <2> QED
    BY <2>2, <2>4, <2>5, <2>6, <2>7, <2>8, <2>9, <2>10, <2>11, <2>12, <2>13 DEF Next, JobStep
<1> QED
  BY <1>1, <1>2

\* The invariant is inductive.
LEMMA IndexInvStep == IndexInv /\ [Next]_vars => IndexInv'
<1> SUFFICES ASSUME IndexInv, [Next]_vars PROVE IndexInv'
  OBVIOUS
<1>1. CASE Next
  BY <1>1, StepTypes, CallsStayBehind, LateStaysBehind, JobCallsStay, IndexStaysBehind,
     IndexStaysFirst DEF IndexInv
<1>2. CASE UNCHANGED vars
  BY <1>2 DEF vars, storeVars, indexVars, IndexInv, TypeOK, StoreTypeOK, CallsBehind, LateBehind,
              JobCalls, Free, NotAhead, IndexNeverAhead, IndexFirst
<1> QED
  BY <1>1, <1>2

\* It holds of every reachable state.
LEMMA IndexInvHolds == Spec => []IndexInv
  BY IndexInvInit, IndexInvStep, PTL DEF Spec

\* The variables of the store, the index, the callers and the client keep their
\* types, whoever indexes, fails to, or ends in between.
THEOREM SearchTypeCorrect == Spec => []TypeOK
<1>1. IndexInv => TypeOK
  BY DEF IndexInv
<1> QED
  BY <1>1, IndexInvHolds, PTL

\* Search shows no status that the operation has not reached, for any number of
\* entry processes, late results, monitors and workers that end.
THEOREM IndexIsNeverAhead == Spec => []IndexNeverAhead
<1>1. IndexInv => IndexNeverAhead
  BY DEF IndexInv
<1> QED
  BY <1>1, IndexInvHolds, PTL

\* No document makes the index: it is there, with its keywords, before the first
\* operation.
THEOREM IndexIsMadeFirst == Spec => []FiltersWork
<1>1. IndexInv => FiltersWork
  BY DEF IndexInv, IndexFirst, FiltersWork
<1> QED
  BY <1>1, IndexInvHolds, PTL
-----------------------------------------------------------------------------
(* A success is the end *)

Reports(op, st) == [op |-> op, status |-> st] \in results

\* Positions of a job that has not come to FAILED.
Forward == { "none", "DISPATCHED", "RUNNING", "TRANSFERRED", "BACKUP_CREATED", "APPLYING",
             "HEALTH_CHECKING", "unsaved", "failing" }

\* The callers of an operation's own client and job.
Own == { "create", "dispatch", "job" }

\* The course of an operation: created, dispatched, then with its job; a job
\* reports failures only once it has come to one, and a success as its last act.
Course(op) ==
  /\ \A x \in Own : ~Free(<<x, op>>) => call[<<x, op>>].op = op
  /\ job[op] # "none" \/ ~Free(<<"dispatch", op>>) =>
       status[op] \in Status \ {"PENDING"} /\ Free(<<"create", op>>)
  /\ job[op] # "none" => Free(<<"dispatch", op>>)
  /\ ~Free(<<"job", op>>) => job[op] \in { "over", call[<<"job", op>>].next }
  /\ job[op] \in Forward => \A st \in Reported \cup {"SUCCEEDED"} : ~Reports(op, st)
  /\ Reports(op, "SUCCEEDED") =>
       /\ job[op] = "over" /\ Free(<<"job", op>>)
       /\ \A st \in Reported : ~Reports(op, st)
  /\ status[op] = "SUCCEEDED" => Reports(op, "SUCCEEDED")

\* A call by c is another one than before, is over, or goes on.
GoesOn(c) ==
  \/ call'[c] = call[c]
  \/ call'[c] = Idle
  \/ /\ call[c].at = "get" /\ call'[c].at = "index"
     /\ call'[c].op = call[c].op /\ call'[c].next = call[c].next

\* Steps of other operations, of the entries and of the search leave the course of op alone.
QuietFor(op) ==
  /\ job'[op] = job[op]
  /\ \A st \in Status : Reports(op, st)' <=> Reports(op, st)
  /\ \A x \in Own : GoesOn(<<x, op>>)

\* Steps of the client and of the job of op.
Acts(op) ==
  \/ CreateUpdate(op) \/ DispatchOperation(op) \/ JobStep(op) \/ WorkerEnds(op)
  \/ IndexOperation(<<"dispatch", op>>) \/ IndexOperation(<<"job", op>>)
  \/ GetFails(<<"job", op>>)

\* Callers of different kinds, or of different operations, are different.
LEMMA CallersDiffer ==
  /\ \A x \in Own, op \in Op : <<x, op>> \in Caller
  /\ \A r \in Replica : <<"results", r>> \in Caller
  /\ \A x \in Own : \A op, r : <<x, op>> # <<"results", r>>
  /\ \A x, y, op, o : <<x, op>> = <<y, o>> => x = y /\ op = o
  BY DEF Caller, Own

\* One step acts for one operation at most, and is quiet for the others.
LEMMA QuietOrActs ==
  ASSUME TypeOK, \A o \in Op : Course(o), NEW op \in Op, Next
  PROVE  QuietFor(op) \/ Acts(op)
<1>0. /\ call \in [Caller -> CallState] /\ job \in [Op -> JobState]
      /\ \A o \in Op : \A x \in Own : <<x, o>> \in Caller /\ (~Free(<<x, o>>) => call[<<x, o>>].op = o)
  BY CallTypes, CallersDiffer DEF Course
<1>a. UNCHANGED << call, job, results >> => QuietFor(op)
  BY DEF QuietFor, GoesOn, Reports
<1>b. ASSUME NEW c \in Caller, \A x \in Own : <<x, op>> # c, NEW s, call' = [call EXCEPT ![c] = s]
      PROVE  \A x \in Own : GoesOn(<<x, op>>)
  BY <1>0, <1>b DEF GoesOn
<1>c. ASSUME NEW o \in Op, o # op, NEW st, Report(o, st)
      PROVE  \A t \in Status : Reports(op, t)' <=> Reports(op, t)
  BY <1>c DEF Report, Reports
<1>1. ASSUME NEW r \in Replica, StartEntry(r) PROVE QuietFor(op)
  BY <1>1, <1>a DEF StartEntry
<1>2. ASSUME NEW r \in Replica, NEW res \in results, HandleResult(r, res) PROVE QuietFor(op)
  <2>1. /\ UNCHANGED << job, results >>
        /\ call' = [call EXCEPT ![<<"results", r>>] = [at |-> "get", op |-> res.op, next |-> res.status]]
    BY <1>2 DEF HandleResult, Advance
  <2> QED
    BY <1>b, <2>1, CallersDiffer DEF QuietFor, Reports
<1>3. ASSUME NEW o \in Op, o # op, CreateUpdate(o) PROVE QuietFor(op)
  <2>1. /\ UNCHANGED << job, results >>
        /\ \E s : call' = [call EXCEPT ![<<"create", o>>] = s]
    BY <1>3 DEF CreateUpdate
  <2>2. <<"create", o>> \in Caller /\ \A x \in Own : <<x, op>> # <<"create", o>>
    BY <1>3, CallersDiffer DEF Own
  <2> QED
    BY <1>b, <2>1, <2>2 DEF QuietFor, Reports
<1>4. ASSUME NEW o \in Op, o # op, DispatchOperation(o) PROVE QuietFor(op)
  <2>1. /\ UNCHANGED << job, results >>
        /\ \E s : call' = [call EXCEPT ![<<"dispatch", o>>] = s]
    BY <1>4 DEF DispatchOperation, Advance
  <2>2. <<"dispatch", o>> \in Caller /\ \A x \in Own : <<x, op>> # <<"dispatch", o>>
    BY <1>4, CallersDiffer DEF Own
  <2> QED
    BY <1>b, <2>1, <2>2 DEF QuietFor, Reports
<1>5. ASSUME NEW o \in Op, o # op, Claim(o) \/ ReportTransferred(o) \/ ReportSucceeded(o)
      PROVE  QuietFor(op)
  <2>1. /\ UNCHANGED call /\ job'[op] = job[op]
        /\ \E st : Report(o, st)
    BY <1>0, <1>5 DEF Claim, ReportTransferred, ReportSucceeded
  <2> QED
    BY <1>5, <1>c, <2>1 DEF QuietFor, GoesOn
<1>6. ASSUME NEW o \in Op, o # op, WriteStatus(o) \/ FailExecution(o) \/ WorkerEnds(o)
      PROVE  QuietFor(op)
  <2>1. /\ UNCHANGED results /\ job'[op] = job[op]
        /\ \E s : call' = [call EXCEPT ![<<"job", o>>] = s]
    BY <1>0, <1>6 DEF WriteStatus, FailExecution, WorkerEnds, Advance
  <2>2. <<"job", o>> \in Caller /\ \A x \in Own : <<x, op>> # <<"job", o>>
    BY <1>6, CallersDiffer DEF Own
  <2> QED
    BY <1>b, <2>1, <2>2 DEF QuietFor, Reports
<1>7. CASE Monitor
  BY <1>7, <1>a DEF Monitor
<1>8. ASSUME NEW c \in Caller, Get(c) PROVE QuietFor(op)
  <2>1. UNCHANGED << job, results >>
    BY <1>8 DEF Get
  <2>2. /\ call[c].at = "get" /\ call'[c].at = "index"
        /\ call'[c].op = call[c].op /\ call'[c].next = call[c].next
        /\ \A d \in Caller \ {c} : call'[d] = call[d]
    BY <1>0, <1>8 DEF Get
  <2>3. \A x \in Own : <<x, op>> \in Caller
    BY CallersDiffer
  <2> QED
    BY <2>1, <2>2, <2>3 DEF QuietFor, GoesOn, Reports
<1>9. ASSUME NEW c \in Caller, IndexOperation(c) PROVE QuietFor(op) \/ Acts(op)
  <2>1. /\ ~Free(c) /\ call' = [call EXCEPT ![c] = Idle]
        /\ job' = IF c[1] = "dispatch" THEN [job EXCEPT ![call[c].op] = "DISPATCHED"] ELSE job
        /\ IF c[1] = "job" /\ call[c].next \in Reported THEN Report(call[c].op, call[c].next)
                                                        ELSE UNCHANGED results
    BY <1>9 DEF IndexOperation, Return, Free
  <2>2. \A x \in Own : GoesOn(<<x, op>>)
    BY <1>0, <2>1 DEF GoesOn
  <2>3. CASE c[1] \notin { "dispatch", "job" }
    BY <2>1, <2>2, <2>3 DEF QuietFor, Reports
  <2>4. CASE c[1] \in { "dispatch", "job" }
    <3>1. PICK x \in { "dispatch", "job" }, o \in Op : c = <<x, o>>
      BY <2>4 DEF Caller
    <3>2. call[c].op = o
      BY <1>0, <2>1, <3>1 DEF Own
    <3>3. CASE o = op
      BY <1>9, <3>1, <3>3 DEF Acts
    <3>4. CASE o # op
      <4>1. job'[op] = job[op]
        BY <1>0, <2>1, <3>2, <3>4
      <4>2. \A t \in Status : Reports(op, t)' <=> Reports(op, t)
        BY <1>c, <2>1, <3>2, <3>4 DEF Reports
      <4> QED
        BY <2>2, <4>1, <4>2 DEF QuietFor
    <3> QED
      BY <3>3, <3>4
  <2> QED
    BY <2>3, <2>4
<1>10. ASSUME Search \/ NextPage \/ IndexLate PROVE QuietFor(op)
  BY <1>10, <1>a DEF Search, NextPage, IndexLate
<1>11. ASSUME NEW r \in Replica, EntryEnds(r) PROVE QuietFor(op)
  <2>1. UNCHANGED << job, results >>
    BY <1>11 DEF EntryEnds
  <2>2. \A c \in Caller : call'[c] = call[c] \/ call'[c] = Idle
    BY <1>11, EndedCalls
  <2> QED
    BY <1>0, <2>1, <2>2 DEF QuietFor, GoesOn, Reports
<1>12. ASSUME NEW o \in Op, o # op, MissStatus(o) PROVE QuietFor(op)
  <2>1. /\ UNCHANGED call /\ job'[op] = job[op]
        /\ UNCHANGED results \/ \E st : Report(o, st)
    BY <1>0, <1>12 DEF MissStatus, Miss
  <2> QED
    BY <1>12, <1>c, <2>1 DEF QuietFor, GoesOn, Reports
<1>13. ASSUME NEW c \in Caller, GetFails(c) PROVE QuietFor(op) \/ Acts(op)
  <2>1. /\ ~Free(c) /\ call' = [call EXCEPT ![c] = Idle]
        /\ UNCHANGED << job, results >> \/ (c[1] = "job" /\ Miss(call[c].op, call[c].next))
    BY <1>13 DEF GetFails, Free
  <2>2. \A x \in Own : GoesOn(<<x, op>>)
    BY <1>0, <2>1 DEF GoesOn
  <2>3. CASE UNCHANGED << job, results >>
    BY <2>2, <2>3 DEF QuietFor, Reports
  <2>4. CASE c[1] = "job" /\ Miss(call[c].op, call[c].next)
    <3>1. PICK o \in Op : c = <<"job", o>>
      BY <2>4 DEF Caller
    <3>2. call[c].op = o
      BY <1>0, <2>1, <3>1 DEF Own
    <3>3. CASE o = op
      BY <1>13, <3>1, <3>3 DEF Acts
    <3>4. CASE o # op
      <4>1. job'[op] = job[op] /\ (UNCHANGED results \/ \E st : Report(o, st))
        BY <1>0, <2>4, <3>2, <3>4 DEF Miss
      <4> QED
        BY <1>c, <2>2, <3>4, <4>1 DEF QuietFor, Reports
    <3> QED
      BY <3>3, <3>4
  <2> QED
    BY <2>1, <2>3, <2>4
<1> QED
  BY <1>1, <1>2, <1>3, <1>4, <1>5, <1>6, <1>7, <1>8, <1>9, <1>10, <1>11, <1>12, <1>13
     DEF Next, JobStep, CallStep, Acts

\* What is reported stays reported.
LEMMA ReportsStay ==
  ASSUME Next, NEW op, NEW st, Reports(op, st)
  PROVE  Reports(op, st)'
<1>1. results \subseteq results'
  BY DEF Next, StartEntry, EntryEnds, HandleResult, CreateUpdate, DispatchOperation, JobStep, Claim,
         ReportTransferred, WriteStatus, MissStatus, Miss, ReportSucceeded, FailExecution, WorkerEnds,
         Monitor, CallStep, Get, GetFails, IndexOperation, Return, IndexLate, Search, NextPage, Report
<1> QED
  BY <1>1 DEF Reports

\* A row that has left PENDING does not come back to it.
LEMMA StartedStays ==
  ASSUME TypeOK, Next, NEW op \in Op, status[op] \in Status \ {"PENDING"}
  PROVE  status'[op] \in Status \ {"PENDING"}
<1>1. status'[op] \in Status /\ (status'[op] = status[op] \/ statusRank[status[op]] < statusRank[status'[op]])
  BY StepMoves DEF StatusMoves
<1>2. statusRank[status[op]] \in Nat /\ statusRank["PENDING"] = 0
  BY Ranks DEF statusRank
<1> QED
  BY <1>1, <1>2

\* SUCCEEDED is written by an entry that is not indexing and will read it, when
\* it has been reported, and nothing is written over it.
LEMMA SuccessWritten ==
  ASSUME TypeOK, NEW op \in Op, Course(op), Next
  PROVE  /\ status'[op] = "SUCCEEDED" => Reports(op, "SUCCEEDED")
         /\ status[op] = "SUCCEEDED" => status'[op] = "SUCCEEDED"
         /\ status'[op] = "SUCCEEDED" /\ status[op] # "SUCCEEDED" =>
              \E r \in Replica :
                /\ Free(<<"results", r>>)
                /\ call'[<<"results", r>>].at = "get" /\ call'[<<"results", r>>].op = op
<1> DEFINE Fits == /\ status'[op] = "SUCCEEDED" => Reports(op, "SUCCEEDED")
                   /\ status[op] = "SUCCEEDED" => status'[op] = "SUCCEEDED"
                   /\ status'[op] = "SUCCEEDED" /\ status[op] # "SUCCEEDED" =>
                        \E r \in Replica :
                          /\ Free(<<"results", r>>)
                          /\ call'[<<"results", r>>].at = "get" /\ call'[<<"results", r>>].op = op
<1>0. /\ status \in [Op -> Status \cup {Absent}]
      /\ status[op] = "SUCCEEDED" => /\ Reports(op, "SUCCEEDED") /\ job[op] = "over"
                                     /\ \A st \in Reported : ~Reports(op, st)
  BY DEF TypeOK, StoreTypeOK, Course
<1>a. status'[op] = status[op] => Fits
  BY <1>0
<1>b. ASSUME NEW c \in Caller, NEW o \in Op, NEW st \in Status, Advance(c, o, st),
             st # "SUCCEEDED", o = op => job[op] # "over"
      PROVE  Fits
  BY <1>0, <1>a, <1>b, AdvanceTypes
<1>1. ASSUME NEW r \in Replica, StartEntry(r) PROVE Fits
  BY <1>1, <1>a DEF StartEntry, storeVars
<1>2. ASSUME NEW r \in Replica, NEW res \in results, HandleResult(r, res) PROVE Fits
  <2>1. res.op \in Op /\ res.status \in Status /\ res = [op |-> res.op, status |-> res.status]
    BY DEF TypeOK
  <2>2. /\ status' = [status EXCEPT ![res.op] = res.status]
        /\ statusRank[status[res.op]] < statusRank[res.status] \/ res.status = status[res.op]
    BY <1>2, <2>1, CallersDiffer, AdvanceTypes DEF HandleResult
  <2>3. CASE res.op # op
    BY <1>0, <1>a, <2>2, <2>3
  <2>4. CASE res.op = op
    <3>1. Reports(op, res.status) /\ status'[op] = res.status
      BY <1>0, <2>1, <2>2, <2>4 DEF Reports
    <3>2. CASE status[op] = "SUCCEEDED"
      <4>1. res.status \notin Reported
        BY <1>0, <3>1, <3>2
      <4>2. \A st \in Status : statusRank["SUCCEEDED"] < statusRank[st] => st \in Reported
        BY DEF Status, Reported, statusRank
      <4> QED
        BY <1>a, <2>1, <2>2, <2>4, <3>1, <3>2, <4>1, <4>2
    <3>3. CASE status[op] # "SUCCEEDED"
      <4>1. /\ Free(<<"results", r>>)
            /\ call' = [call EXCEPT ![<<"results", r>>] =
                 [at |-> "get", op |-> res.op, next |-> res.status]]
        BY <1>2 DEF HandleResult, Advance
      <4>2. call'[<<"results", r>>] = [at |-> "get", op |-> op, next |-> res.status]
        BY <2>4, <4>1, CallersDiffer, CallTypes
      <4> QED
        BY <3>1, <3>3, <4>1, <4>2
    <3> QED
      BY <3>2, <3>3
  <2> QED
    BY <2>3, <2>4
<1>3. ASSUME NEW o \in Op, CreateUpdate(o) PROVE Fits
  BY <1>0, <1>3 DEF CreateUpdate, CreateRow, Absent
<1>4. ASSUME NEW o \in Op, DispatchOperation(o) PROVE Fits
  <2>1. /\ status' = [status EXCEPT ![o] = "DISPATCHED"] /\ status[o] \in Status
        /\ statusRank[status[o]] < statusRank["DISPATCHED"] \/ "DISPATCHED" = status[o]
    BY <1>4, CallersDiffer, AdvanceTypes DEF DispatchOperation, Own, Status
  <2>2. status[o] # "SUCCEEDED"
    BY <2>1 DEF statusRank
  <2> QED
    BY <1>0, <2>1, <2>2
<1>5. ASSUME NEW o \in Op, Claim(o) PROVE Fits
  BY <1>0, <1>5 DEF Claim, ClaimForExecution
<1>6. ASSUME NEW o \in Op, WriteStatus(o) PROVE Fits
  <2>1. PICK next \in WritesNext[job[o]] : Advance(<<"job", o>>, o, next)
    BY <1>6 DEF WriteStatus
  <2>2. next \in Status /\ next # "SUCCEEDED" /\ job[o] # "over"
    BY <1>6, <2>1 DEF WriteStatus, WritesNext, Status
  <2> QED
    BY <1>b, <2>1, <2>2, CallersDiffer DEF Own
<1>7. ASSUME NEW o \in Op, FailExecution(o) PROVE Fits
  BY <1>b, <1>7, CallersDiffer DEF FailExecution, Own, Status
<1>8. CASE Monitor
  <2>1. PICK expired \in SUBSET Op : Reap(expired)
    BY <1>8 DEF Monitor
  <2> QED
    BY <1>0, <2>1 DEF Reap, Reapable
<1>9. ASSUME NEW o \in Op, ReportTransferred(o) \/ ReportSucceeded(o) \/ WorkerEnds(o) PROVE Fits
  BY <1>9, <1>a DEF ReportTransferred, ReportSucceeded, WorkerEnds, storeVars
<1>10. ASSUME NEW c \in Caller, CallStep(c) PROVE Fits
  BY <1>10, <1>a DEF CallStep, Get, GetFails, IndexOperation, storeVars
<1>11. ASSUME Search \/ NextPage \/ IndexLate PROVE Fits
  BY <1>11, <1>a DEF Search, NextPage, IndexLate, storeVars
<1>12. ASSUME NEW r \in Replica, EntryEnds(r) PROVE Fits
  BY <1>12, <1>a DEF EntryEnds, storeVars
<1>13. ASSUME NEW o \in Op, MissStatus(o) PROVE Fits
  BY <1>13, <1>a DEF MissStatus, storeVars
<1> QED
  BY <1>1, <1>2, <1>3, <1>4, <1>5, <1>6, <1>7, <1>8, <1>9, <1>10, <1>11, <1>12, <1>13
     DEF Next, JobStep

\* A step that is quiet for an operation leaves it on its course.
LEMMA QuietKeepsCourse ==
  ASSUME TypeOK, TypeOK', NEW op \in Op, Course(op), Next, QuietFor(op)
  PROVE  Course(op)'
<1>1. \A x \in Own : <<x, op>> \in Caller
  BY CallersDiffer
<1>2. \A x \in Own :
        /\ Free(<<x, op>>) => Free(<<x, op>>)'
        /\ ~Free(<<x, op>>)' => /\ call'[<<x, op>>].op = call[<<x, op>>].op
                                /\ call'[<<x, op>>].next = call[<<x, op>>].next
  BY <1>1 DEF QuietFor, GoesOn, Free, Idle
<1>3. \A x \in Own : ~Free(<<x, op>>)' => call'[<<x, op>>].op = op
  BY <1>2 DEF Course
<1>4. \A st \in Reported \cup {"SUCCEEDED"} : Reports(op, st)' <=> Reports(op, st)
  BY DEF QuietFor, Reported, Status
<1>5. "create" \in Own /\ "dispatch" \in Own /\ "job" \in Own /\ job'[op] = job[op]
  BY DEF Own, QuietFor
<1>6. status'[op] = "SUCCEEDED" => Reports(op, "SUCCEEDED")'
  BY <1>4, SuccessWritten
<1>7. (job'[op] # "none" \/ ~Free(<<"dispatch", op>>)' =>
         status'[op] \in Status \ {"PENDING"} /\ Free(<<"create", op>>)')
      /\ (job'[op] # "none" => Free(<<"dispatch", op>>)')
  BY <1>2, <1>5, StartedStays DEF Course
<1>8. /\ job'[op] \in Forward => \A st \in Reported \cup {"SUCCEEDED"} : ~Reports(op, st)'
      /\ ~Free(<<"job", op>>)' => job'[op] \in { "over", call'[<<"job", op>>].next }
  BY <1>2, <1>4, <1>5 DEF Course
<1>9. Reports(op, "SUCCEEDED")' =>
        /\ job'[op] = "over" /\ Free(<<"job", op>>)'
        /\ \A st \in Reported : ~Reports(op, st)'
  BY <1>2, <1>4, <1>5 DEF Course
<1> QED
  BY <1>3, <1>6, <1>7, <1>8, <1>9 DEF Course

\* So do the steps of its own client and job.
LEMMA ActsKeepCourse ==
  ASSUME TypeOK, JobCalls, NEW op \in Op, Course(op), Next, Acts(op)
  PROVE  Course(op)'
<1>0. /\ call \in [Caller -> CallState] /\ job \in [Op -> JobState]
      /\ status \in [Op -> Status \cup {Absent}]
      /\ \A x \in Own : <<x, op>> \in Caller
      /\ <<"create", op>> # <<"dispatch", op>> /\ <<"create", op>> # <<"job", op>>
      /\ <<"dispatch", op>> # <<"job", op>>
  BY CallTypes, CallersDiffer
<1> DEFINE create == <<"create", op>>
           dispatch == <<"dispatch", op>>
           own == <<"job", op>>
<1>a. create \in Caller /\ dispatch \in Caller /\ own \in Caller /\ \A x \in Own : x \in { "create", "dispatch", "job" }
  BY <1>0 DEF Own
<1>b. status'[op] = "SUCCEEDED" => Reports(op, "SUCCEEDED")'
  BY SuccessWritten, ReportsStay
<1>c. status[op] \in Status \ {"PENDING"} => status'[op] \in Status \ {"PENDING"}
  BY StartedStays
<1> HIDE DEF create, dispatch, own
<1>d. SUFFICES /\ Free(create)' \/ call'[create].op = op
               /\ Free(dispatch)' \/ call'[dispatch].op = op
               /\ Free(own)' \/ call'[own].op = op
               /\ job'[op] # "none" \/ ~Free(dispatch)' =>
                    status'[op] \in Status \ {"PENDING"} /\ Free(create)'
               /\ job'[op] # "none" => Free(dispatch)'
               /\ ~Free(own)' => job'[op] \in { "over", call'[own].next }
               /\ job'[op] \in Forward => \A st \in Reported \cup {"SUCCEEDED"} : ~Reports(op, st)'
               /\ Reports(op, "SUCCEEDED")' =>
                    /\ job'[op] = "over" /\ Free(own)'
                    /\ \A st \in Reported : ~Reports(op, st)'
  BY <1>a, <1>b DEF Course, create, dispatch, own
<1>e. /\ Free(create) \/ call[create].op = op
      /\ Free(dispatch) \/ call[dispatch].op = op
      /\ Free(own) \/ call[own].op = op
      /\ job[op] # "none" \/ ~Free(dispatch) =>
           status[op] \in Status \ {"PENDING"} /\ Free(create)
      /\ job[op] # "none" => Free(dispatch)
      /\ ~Free(own) => job[op] \in { "over", call[own].next }
      /\ job[op] \in Forward => \A st \in Reported \cup {"SUCCEEDED"} : ~Reports(op, st)
      /\ Reports(op, "SUCCEEDED") =>
           /\ job[op] = "over" /\ Free(own)
           /\ \A st \in Reported : ~Reports(op, st)
  BY DEF Course, Own, create, dispatch, own
\* A step that moves one of the three calls and reports nothing leaves the rest.
<1>f. UNCHANGED results => \A st : Reports(op, st)' <=> Reports(op, st)
  BY DEF Reports
<1>g. create # dispatch /\ create # own /\ dispatch # own
  BY <1>0 DEF create, dispatch, own
<1>h. job[op] \in { "none", "DISPATCHED", "RUNNING" } => Free(own)
  <2>1. ~Free(own) => call[own].next \in DOMAIN AfterMiss
    BY <1>a DEF JobCalls, own
  <2>2. DOMAIN AfterMiss \cap { "over", "none", "DISPATCHED", "RUNNING" } = {}
    BY DEF AfterMiss
  <2> QED
    BY <1>e, <2>1, <2>2
<1>1. CASE CreateUpdate(op)
  <2>1. /\ status[op] = Absent /\ UNCHANGED << job, results >>
        /\ call' = [call EXCEPT ![create] =
             [at |-> "index", op |-> op, next |-> "PENDING", read |-> "PENDING"]]
    BY <1>1 DEF CreateUpdate, CreateRow, create
  <2>2. job[op] = "none" /\ Free(dispatch)
    BY <1>e, <2>1 DEF Absent, Status
  <2>3. call'[create].op = op /\ call'[dispatch] = call[dispatch] /\ call'[own] = call[own]
    BY <1>0, <1>a, <1>g, <2>1
  <2> QED
    BY <1>e, <1>f, <2>1, <2>2, <2>3 DEF Free
<1>2. CASE DispatchOperation(op)
  <2>1. /\ Free(create) /\ UNCHANGED << job, results >>
        /\ status' = [status EXCEPT ![op] = "DISPATCHED"] /\ status[op] \in Status
        /\ statusRank[status[op]] < statusRank["DISPATCHED"] \/ "DISPATCHED" = status[op]
        /\ CanAdvance(status[op], "DISPATCHED")
        /\ call' = [call EXCEPT ![dispatch] = [at |-> "get", op |-> op, next |-> "DISPATCHED"]]
    BY <1>2, <1>a, AdvanceTypes
       DEF DispatchOperation, Advance, AdvanceStatus, Status, create, dispatch
  <2>2. status[op] = "PENDING"
    BY <2>1 DEF CanAdvance, Status, statusRank
  <2>3. job[op] = "none"
    BY <1>e, <2>2
  <2>4. call'[create] = call[create] /\ call'[own] = call[own] /\ call'[dispatch].op = op
    BY <1>0, <1>a, <1>g, <2>1
  <2>5. status'[op] \in Status \ {"PENDING"}
    BY <1>0, <2>1 DEF Status
  <2> QED
    BY <1>e, <1>f, <2>1, <2>3, <2>4, <2>5 DEF Free
<1>3. CASE Claim(op) \/ ReportTransferred(op)
  <2>1. /\ UNCHANGED call /\ job[op] \in Forward \ {"none"} /\ job'[op] \in Forward \ {"none"}
        /\ Report(op, "RUNNING") \/ Report(op, "TRANSFERRED")
        /\ job[op] \in { "DISPATCHED", "RUNNING" }
    BY <1>0, <1>3 DEF Claim, ReportTransferred, Forward
  <2>2. \A st \in Reported \cup {"SUCCEEDED"} : Reports(op, st)' => Reports(op, st)
    BY <2>1 DEF Report, Reports, Reported
  <2>3. job[op] \in { "none", "DISPATCHED", "RUNNING" }
    BY <2>1
  <2> QED
    BY <1>c, <1>e, <1>h, <2>1, <2>2, <2>3 DEF Free
<1>4. CASE ReportSucceeded(op)
  <2>1. /\ UNCHANGED call /\ Free(own) /\ job[op] = "HEALTH_CHECKING" /\ job'[op] = "over"
        /\ Report(op, "SUCCEEDED")
    BY <1>0, <1>4 DEF ReportSucceeded, JobFree, own
  <2>2. \A st \in Reported : Reports(op, st)' => Reports(op, st)
    BY <2>1 DEF Report, Reports, Reported
  <2>3. job[op] \in Forward /\ job[op] # "none" /\ job'[op] \notin Forward
    BY <2>1 DEF Forward
  <2> QED
    BY <1>c, <1>e, <2>1, <2>2, <2>3 DEF Free
<1>5. CASE WriteStatus(op)
  <2>1. PICK next \in WritesNext[job[op]] :
          Advance(<<"job", op>>, op, next) /\ job' = [job EXCEPT ![op] = next]
    BY <1>5 DEF WriteStatus
  <2>2. /\ job[op] \in DOMAIN WritesNext /\ UNCHANGED results
        /\ call' = [call EXCEPT ![own] = [at |-> "get", op |-> op, next |-> next]]
    BY <1>5, <2>1 DEF WriteStatus, Advance, own
  <2>3. /\ job[op] # "none" /\ job[op] # "over"
        /\ next # "none" /\ next # "over"
        /\ next \in Forward => job[op] \in Forward
    BY <2>1, <2>2 DEF WritesNext, Forward, Reported
  <2>4. /\ job'[op] = next /\ call'[create] = call[create] /\ call'[dispatch] = call[dispatch]
        /\ call'[own].op = op /\ call'[own].next = next
    BY <1>0, <1>a, <1>g, <2>1, <2>2
  <2> QED
    BY <1>c, <1>e, <1>f, <2>2, <2>3, <2>4 DEF Free
<1>6. CASE FailExecution(op)
  <2>1. /\ job[op] \in Forward \ {"none"} /\ job' = [job EXCEPT ![op] = "over"] /\ UNCHANGED results
        /\ call' = [call EXCEPT ![own] = [at |-> "get", op |-> op, next |-> "FAILED"]]
    BY <1>6 DEF FailExecution, Advance, own, Forward
  <2>2. /\ job'[op] = "over" /\ call'[create] = call[create] /\ call'[dispatch] = call[dispatch]
        /\ call'[own].op = op /\ "over" \notin Forward
    BY <1>0, <1>a, <1>g, <2>1 DEF Forward
  <2> QED
    BY <1>c, <1>e, <1>f, <2>1, <2>2 DEF Free
<1>7. CASE WorkerEnds(op)
  <2>1. /\ job[op] # "none" /\ job' = [job EXCEPT ![op] = "over"]
        /\ UNCHANGED results /\ call' = [call EXCEPT ![own] = Idle]
    BY <1>7 DEF WorkerEnds, own
  <2>2. /\ job'[op] = "over" /\ call'[create] = call[create] /\ call'[dispatch] = call[dispatch]
        /\ call'[own] = Idle /\ "over" \notin Forward
    BY <1>0, <1>a, <1>g, <2>1 DEF Forward
  <2> QED
    BY <1>c, <1>e, <1>f, <2>1, <2>2 DEF Free, Idle
<1>8. CASE IndexOperation(<<"dispatch", op>>)
  <2>1. /\ ~Free(dispatch) /\ call' = [call EXCEPT ![dispatch] = Idle] /\ UNCHANGED results
        /\ job' = [job EXCEPT ![call[dispatch].op] = "DISPATCHED"]
    BY <1>8 DEF IndexOperation, Return, Free, dispatch
  <2>2. job[op] = "none" /\ job'[op] = "DISPATCHED"
    BY <1>0, <1>e, <2>1
  <2>3. call'[create] = call[create] /\ call'[own] = call[own] /\ call'[dispatch] = Idle
    BY <1>0, <1>a, <1>g, <2>1
  <2>4. "none" \in Forward /\ "DISPATCHED" # "over"
    BY DEF Forward
  <2> QED
    BY <1>c, <1>e, <1>f, <1>h, <2>1, <2>2, <2>3, <2>4 DEF Free, Idle
<1>9. CASE IndexOperation(<<"job", op>>)
  <2>1. /\ ~Free(own) /\ call' = [call EXCEPT ![own] = Idle] /\ UNCHANGED job
        /\ IF call[own].next \in Reported THEN Report(call[own].op, call[own].next) ELSE UNCHANGED results
    BY <1>9 DEF IndexOperation, Return, Free, own
  <2>2. call'[create] = call[create] /\ call'[dispatch] = call[dispatch] /\ call'[own] = Idle
    BY <1>0, <1>a, <1>g, <2>1
  <2>3. job[op] \in Forward => UNCHANGED results
    BY <1>e, <2>1 DEF Forward, Reported
  <2>4. ~Reports(op, "SUCCEEDED")'
    BY <1>e, <2>1 DEF Report, Reports, Reported
  <2> QED
    BY <1>c, <1>e, <1>f, <2>1, <2>2, <2>3, <2>4 DEF Free, Idle
<1>10. CASE MissStatus(op)
  <2>1. PICK next \in WritesNext[job[op]] : Miss(op, next)
    BY <1>10 DEF MissStatus
  <2>2. UNCHANGED call /\ Free(own) /\ job[op] \in DOMAIN WritesNext /\ next \in DOMAIN AfterMiss
    BY <1>10, <2>1 DEF MissStatus, JobFree, own, WritesNext, AfterMiss
  <2>3. /\ job[op] # "none" /\ job[op] # "over" /\ AfterMiss[next] # "none"
        /\ AfterMiss[next] \in Forward => job[op] \in Forward /\ next \notin Reported
    BY <2>1, <2>2 DEF WritesNext, AfterMiss, Forward, Reported
  <2>4. job'[op] = AfterMiss[next] /\ (UNCHANGED results \/ (Report(op, next) /\ next \in Reported))
    BY <2>1, <2>2, MissTypes
  <2>5. ~Reports(op, "SUCCEEDED")'
    BY <1>e, <2>3, <2>4 DEF Report, Reports, Reported
  <2> QED
    BY <1>c, <1>e, <1>f, <2>2, <2>3, <2>4, <2>5 DEF Free
<1>11. CASE GetFails(<<"job", op>>)
  <2>1. /\ ~Free(own) /\ call' = [call EXCEPT ![own] = Idle]
        /\ UNCHANGED << job, results >> \/ (job[op] # "over" /\ Miss(op, call[own].next))
    BY <1>11, <1>e DEF GetFails, Free, own
  <2>2. call'[create] = call[create] /\ call'[dispatch] = call[dispatch] /\ call'[own] = Idle
    BY <1>0, <1>a, <1>g, <2>1
  <2>3. CASE UNCHANGED << job, results >>
    BY <1>c, <1>e, <1>f, <2>1, <2>2, <2>3 DEF Free, Idle
  <2>4. CASE job[op] # "over" /\ Miss(op, call[own].next)
    <3>1. call[own].next \in DOMAIN AfterMiss /\ job[op] = call[own].next
      BY <1>a, <1>e, <2>1, <2>4 DEF JobCalls, own
    <3>2. /\ job[op] # "none" /\ AfterMiss[job[op]] # "none"
          /\ AfterMiss[job[op]] \in Forward => job[op] \in Forward /\ job[op] \notin Reported
      BY <3>1 DEF AfterMiss, Forward, Reported
    <3>3. /\ job'[op] = AfterMiss[job[op]]
          /\ UNCHANGED results \/ (Report(op, job[op]) /\ job[op] \in Reported)
      BY <2>4, <3>1, MissTypes
    <3>4. ~Reports(op, "SUCCEEDED")'
      BY <1>e, <2>1, <3>3 DEF Report, Reports, Reported
    <3> QED
      BY <1>c, <1>e, <1>f, <2>2, <3>2, <3>3, <3>4 DEF Free, Idle
  <2> QED
    BY <2>1, <2>3, <2>4
<1> QED
  BY <1>1, <1>2, <1>3, <1>4, <1>5, <1>6, <1>7, <1>8, <1>9, <1>10, <1>11 DEF Acts, JobStep

\* What has been read of a success.
SuccessRead ==
  \A op \in Op :
    /\ doc[op] = "SUCCEEDED" => status[op] = "SUCCEEDED"
    /\ \A c \in Caller : call[c].at = "index" /\ call[c].op = op /\ call[c].read = "SUCCEEDED" =>
         status[op] = "SUCCEEDED"
    /\ \A d \in late : d.op = op /\ d.status = "SUCCEEDED" => status[op] = "SUCCEEDED"

\* With one entry nothing that was read before a success is still to be indexed
\* after it.
NothingOlder ==
  \A op \in Op : status[op] = "SUCCEEDED" =>
    \A c \in Caller : call[c].at = "index" /\ call[c].op = op => call[c].read = "SUCCEEDED"

CourseInv == IndexInv /\ \A op \in Op : Course(op)

\* Every operation keeps its course.
LEMMA CourseHolds == Spec => []CourseInv
<1>1. Init => CourseInv
  <2> SUFFICES ASSUME Init, NEW op \in Op PROVE Course(op)
    BY IndexInvInit DEF CourseInv
  <2>1. \A x \in Own : Free(<<x, op>>)
    BY CallersDiffer DEF Init, Free, Idle
  <2>2. status[op] = Absent /\ job[op] = "none" /\ results = {}
    BY DEF Init, StoreInit
  <2> QED
    BY <2>1, <2>2 DEF Course, Own, Reports, Absent
<1>2. CourseInv /\ [Next]_vars => CourseInv'
  <2> SUFFICES ASSUME CourseInv, [Next]_vars PROVE CourseInv'
    OBVIOUS
  <2>1. IndexInv'
    BY IndexInvStep DEF CourseInv
  <2>2. ASSUME NEW op \in Op, Next PROVE Course(op)'
    <3>1. QuietFor(op) \/ Acts(op)
      BY <2>2, QuietOrActs DEF CourseInv, IndexInv
    <3> QED
      BY <2>1, <2>2, <3>1, QuietKeepsCourse, ActsKeepCourse DEF CourseInv, IndexInv
  <2>3. CASE UNCHANGED vars
    <3>1. UNCHANGED << call, job, status, results >>
      BY <2>3 DEF vars, storeVars
    <3> QED
      BY <2>1, <3>1 DEF CourseInv, Course, Reports, Free
  <2> QED
    BY <2>1, <2>2, <2>3 DEF CourseInv
<1> QED
  BY <1>1, <1>2, PTL DEF Spec

\* With one entry, what a success was read for stays the last word on it, unless
\* something else may be indexed late.
LEMMA SuccessStep ==
  ASSUME \A x, y \in Replica : x = y, CourseInv, SuccessRead, NothingOlder, Next, NEW op \in Op
  PROVE  /\ doc[op] = "SUCCEEDED" /\ ~OutdatedLate(op) => doc'[op] = "SUCCEEDED"
         /\ \A d \in late' : d.op = op /\ d.status = "SUCCEEDED" => status'[op] = "SUCCEEDED"
         /\ doc'[op] = "SUCCEEDED" => status'[op] = "SUCCEEDED"
         /\ \A c \in Caller : call'[c].at = "index" /\ call'[c].op = op =>
              (call'[c].read = "SUCCEEDED" <=> status'[op] = "SUCCEEDED")
<1>0. /\ TypeOK /\ CallsBehind /\ \A o \in Op : Course(o)
      /\ CallMoves
      /\ status[op] = "SUCCEEDED" => status'[op] = "SUCCEEDED"
  <2>1. TypeOK /\ CallsBehind /\ \A o \in Op : Course(o)
    BY DEF CourseInv, IndexInv
  <2>2. CallMoves
    BY <2>1, StepCalls
  <2>3. status[op] = "SUCCEEDED" => status'[op] = "SUCCEEDED"
    BY <2>1, SuccessWritten
  <2> QED
    BY <2>1, <2>2, <2>3
<1> DEFINE Shows == /\ doc[op] = "SUCCEEDED" /\ ~OutdatedLate(op) => doc'[op] = "SUCCEEDED"
                    /\ doc'[op] = "SUCCEEDED" => status'[op] = "SUCCEEDED"
<1>1. ASSUME doc'[op] = doc[op] PROVE Shows
  BY <1>0, <1>1 DEF SuccessRead
<1>2. ASSUME doc'[op] # doc[op] PROVE Shows
  <2>1. CASE \E c \in Caller : call[c].at = "index" /\ call[c].op = op /\ doc'[op] = call[c].read
    BY <1>0, <2>1 DEF SuccessRead, NothingOlder
  <2>2. CASE \E d \in late : d.op = op /\ doc'[op] = d.status
    BY <1>0, <2>2 DEF SuccessRead, OutdatedLate
  <2> QED
    BY <1>0, <1>2, <2>1, <2>2, StepIndexes
<1>3. ASSUME NEW c \in Caller, call'[c].at = "index", call'[c].op = op, status'[op] = "SUCCEEDED"
      PROVE  call'[c].read = "SUCCEEDED"
  <2>1. CASE status'[call'[c].op] = call'[c].read
    BY <1>3, <2>1
  <2>2. CASE call'[c] = call[c]
    <3>1. CASE status[op] = "SUCCEEDED"
      BY <1>3, <2>2, <3>1 DEF NothingOlder
    <3>2. CASE status[op] # "SUCCEEDED"
      <4>1. PICK r \in Replica : Free(<<"results", r>>)
        BY <1>0, <1>3, <3>2, SuccessWritten
      <4>2. Reports(op, "SUCCEEDED")
        BY <1>0, <1>3, SuccessWritten
      <4>3. \A x \in Own : Free(<<x, op>>)
        BY <1>0, <4>2 DEF Course, Own
      <4>4. ~Free(c) /\ call[c].op = op
        BY <1>3, <2>2 DEF Free
      <4>5. CASE \E y \in Replica : c = <<"results", y>>
        BY <4>1, <4>4, <4>5
      <4>6. CASE \E x \in Own, o \in Op : c = <<x, o>>
        <5>1. PICK x \in Own, o \in Op : c = <<x, o>>
          BY <4>6
        <5>2. o = op
          BY <1>0, <4>4, <5>1 DEF Course
        <5> QED
          BY <4>3, <4>4, <5>1, <5>2
      <4> QED
        BY <4>5, <4>6 DEF Caller, Own
    <3> QED
      BY <3>1, <3>2
  <2> QED
    BY <1>0, <1>3, <2>1, <2>2 DEF CallMoves, Idle
<1>4. ASSUME NEW c \in Caller, call'[c].at = "index", call'[c].op = op, call'[c].read = "SUCCEEDED"
      PROVE  status'[op] = "SUCCEEDED"
  BY <1>0, <1>4 DEF CallMoves, SuccessRead, Idle
<1>5. ASSUME NEW d \in late', d.op = op, d.status = "SUCCEEDED" PROVE status'[op] = "SUCCEEDED"
  <2>1. d \in late \/ \E c \in Caller :
          call[c].at = "index" /\ d.op = call[c].op /\ d.status = call[c].read
    BY <1>0, StepIndexes
  <2> QED
    BY <1>0, <1>5, <2>1 DEF SuccessRead
<1> QED
  BY <1>1, <1>2, <1>3, <1>4, <1>5

SuccessInv == CourseInv /\ SuccessRead /\ NothingOlder

\* With one entry this is inductive.
LEMMA SuccessHolds ==
  ASSUME \A x, y \in Replica : x = y
  PROVE  Spec => []SuccessInv
<1>1. Init => SuccessRead /\ NothingOlder
  BY DEF Init, StoreInit, SuccessRead, NothingOlder, Absent, Idle
<1>2. SuccessInv /\ CourseInv' /\ [Next]_vars => (SuccessRead /\ NothingOlder)'
  <2>1. ASSUME SuccessInv, Next PROVE (SuccessRead /\ NothingOlder)'
    BY <2>1, SuccessStep DEF SuccessInv, SuccessRead, NothingOlder
  <2>2. SuccessInv /\ UNCHANGED vars => (SuccessRead /\ NothingOlder)'
    BY DEF vars, storeVars, indexVars, SuccessInv, SuccessRead, NothingOlder
  <2> QED
    BY <2>1, <2>2
<1> QED
  BY <1>1, <1>2, CourseHolds, PTL DEF Spec, SuccessInv

\* With one entry a success that search shows stays shown: however its results
\* are repeated, its worker and the entry end, Gets and index requests fail and
\* the other operations go.  Only a request that failed before, for another
\* status, and is carried out late may replace it.
THEOREM SuccessStays ==
  ASSUME \A x, y \in Replica : x = y
  PROVE  Spec => SuccessStaysFound
<1>1. SuccessInv /\ [Next]_vars
        => [\A op \in Op :
              doc[op] = "SUCCEEDED" /\ ~OutdatedLate(op) => doc'[op] = "SUCCEEDED"]_vars
  BY SuccessStep DEF SuccessInv
<1> QED
  BY <1>1, SuccessHolds, PTL DEF Spec, SuccessStaysFound

\* A call that is to index the success of op, or has yet to read it.
Pending(c, op) ==
  /\ ~Free(c) /\ call[c].op = op
  /\ call[c].at = "index" => call[c].read = "SUCCEEDED"

\* With one entry a call that is to index a success does, or fails to or is cut
\* off, or it is still about to: no other call takes its place.
LEMMA PendingStep ==
  ASSUME SuccessInv, NEW op \in Op, status[op] = "SUCCEEDED",
         NEW c \in Caller, Pending(c, op), Next
  PROVE  doc'[op] = "SUCCEEDED" \/ op \in missed' \/ Pending(c, op)'
<1> DEFINE OnItsWay == doc'[op] = "SUCCEEDED" \/ op \in missed' \/ Pending(c, op)'
<1>0. /\ TypeOK /\ Course(op) /\ Free(<<"job", op>>)
      /\ \A o \in Op : Course(o)
  <2>1. TypeOK /\ \A o \in Op : Course(o)
    BY DEF SuccessInv, CourseInv, IndexInv
  <2> QED
    BY <2>1 DEF Course
<1>1. /\ call \in [Caller -> CallState] /\ doc \in [Op -> Status \cup {Absent}]
      /\ ~Free(c) /\ call[c].op = op
      /\ call[c].at = "index" => call[c].read = "SUCCEEDED"
  BY <1>0 DEF TypeOK, Pending
<1>a. ASSUME call'[c] = call[c] PROVE OnItsWay
  BY <1>1, <1>a DEF Pending, Free
<1>b. ASSUME NEW d \in Caller, d # c, NEW s, call' = [call EXCEPT ![d] = s] PROVE OnItsWay
  BY <1>1, <1>a, <1>b
<1>2. ASSUME NEW d \in Caller, Free(d), NEW s, call' = [call EXCEPT ![d] = s] PROVE OnItsWay
  BY <1>1, <1>2, <1>b
<1>3. ASSUME NEW r \in Replica, NEW res \in results, HandleResult(r, res) PROVE OnItsWay
  BY <1>2, <1>3, CallersDiffer DEF HandleResult, Advance
<1>4. ASSUME NEW o \in Op, CreateUpdate(o) PROVE OnItsWay
  <2>1. o # op /\ <<"create", o>> \in Caller
    BY <1>4, CallersDiffer DEF CreateUpdate, CreateRow, Absent, Own
  <2>2. Free(<<"create", o>>) \/ call[<<"create", o>>].op = o
    BY <1>0, <1>4 DEF Course, Own
  <2> QED
    BY <1>1, <1>4, <1>b, <2>1, <2>2 DEF CreateUpdate
<1>5. ASSUME NEW o \in Op, DispatchOperation(o) \/ WriteStatus(o) \/ FailExecution(o) PROVE OnItsWay
  BY <1>2, <1>5, CallersDiffer DEF DispatchOperation, WriteStatus, FailExecution, Advance, Own
<1>d. ASSUME NEW C \in SUBSET Caller, \A d \in C : ~Free(d), Lose(C), c \in C PROVE OnItsWay
  BY <1>0, <1>1, <1>d, Lost
<1>6. ASSUME NEW o \in Op, WorkerEnds(o) PROVE OnItsWay
  <2>1. <<"job", o>> \in Caller /\ <<"job", op>> \in Caller
    BY CallersDiffer DEF Own
  <2>2. Free(<<"job", o>>) \/ (call[<<"job", o>>].op = o /\ o # op)
    BY <1>0, <1>6 DEF Course, Own
  <2> QED
    BY <1>1, <1>6, <1>b, <2>1, <2>2 DEF WorkerEnds
<1>7. ASSUME NEW d \in Caller, Get(d) PROVE OnItsWay
  <2>1. CASE d # c
    BY <1>7, <1>b, <2>1 DEF Get
  <2>2. CASE d = c
    <3>1. call'[c] = [at |-> "index", op |-> op, next |-> call[c].next, read |-> "SUCCEEDED"]
      BY <1>1, <1>7, <2>2 DEF Get
    <3> QED
      BY <3>1 DEF Pending, Free
  <2> QED
    BY <2>1, <2>2
<1>8. ASSUME NEW d \in Caller, IndexOperation(d) \/ GetFails(d) PROVE OnItsWay
  <2>1. CASE d # c
    BY <1>8, <1>b, <2>1 DEF IndexOperation, Return, GetFails
  <2>2. CASE d = c
    <3>1. Lose({c}) \/ Write(op, "SUCCEEDED")
      BY <1>1, <1>8, <2>2 DEF IndexOperation, GetFails
    <3> QED
      BY <1>1, <1>d, <3>1 DEF Write
  <2> QED
    BY <2>1, <2>2
<1>9. CASE UNCHANGED call
  BY <1>9, <1>a
<1>10. ASSUME NEW r \in Replica, EntryEnds(r) PROVE OnItsWay
  <2>1. PICK C \in SUBSET Caller :
          /\ \A d \in C : ~Free(d)
          /\ Lose(C)
          /\ call' = [d \in Caller |-> IF d \in C THEN Idle ELSE call[d]]
    BY <1>10, EndedCalls
  <2>2. CASE c \in C
    BY <1>d, <2>1, <2>2
  <2>3. CASE c \notin C
    BY <1>a, <2>1, <2>3
  <2> QED
    BY <2>2, <2>3
<1> QED
  BY <1>3, <1>4, <1>5, <1>6, <1>7, <1>8, <1>9, <1>10 DEF Next, StartEntry, JobStep, Claim,
     ReportTransferred, ReportSucceeded, MissStatus, Monitor, CallStep, IndexLate, Search, NextPage

\* Only an UPDATE puts an operation off the list of those that were missed, and
\* its call goes on to read the row.
LEMMA MissedStays ==
  ASSUME TypeOK, Next, NEW op \in Op, op \in missed
  PROVE  op \in missed' \/ \E c \in Caller : call'[c].at = "get" /\ call'[c].op = op
<1> DEFINE Stays == op \in missed' \/ \E c \in Caller : call'[c].at = "get" /\ call'[c].op = op
<1> USE DEF indexVars
<1>0. call \in [Caller -> CallState]
  BY DEF TypeOK
<1>1. ASSUME missed \subseteq missed' PROVE Stays
  BY <1>1
<1>2. ASSUME NEW c \in Caller, NEW o, NEW next, Advance(c, o, next) PROVE Stays
  BY <1>0, <1>2 DEF Advance
<1>3. ASSUME NEW C, Lose(C) PROVE missed \subseteq missed'
  BY <1>3 DEF Lose
<1>4. ASSUME NEW r \in Replica,
             StartEntry(r) \/ EntryEnds(r) \/ \E res \in results : HandleResult(r, res)
      PROVE  Stays
  BY <1>1, <1>2, <1>3, <1>4, Callers DEF StartEntry, EntryEnds, HandleResult
<1>5. ASSUME NEW o \in Op, WriteStatus(o) \/ FailExecution(o) \/ DispatchOperation(o) PROVE Stays
  BY <1>2, <1>5, Callers DEF WriteStatus, FailExecution, DispatchOperation
<1>6. ASSUME NEW o \in Op, CreateUpdate(o) \/ Claim(o) \/ ReportTransferred(o) \/ ReportSucceeded(o)
                             \/ MissStatus(o) \/ WorkerEnds(o)
      PROVE  Stays
  BY <1>1, <1>3, <1>6 DEF CreateUpdate, Claim, ReportTransferred, ReportSucceeded, MissStatus, WorkerEnds
<1>7. ASSUME NEW c \in Caller, CallStep(c) PROVE Stays
  BY <1>1, <1>3, <1>7 DEF CallStep, Get, GetFails, IndexOperation
<1>8. ASSUME Monitor \/ IndexLate \/ Search \/ NextPage PROVE Stays
  BY <1>1, <1>8 DEF Monitor, IndexLate, Search, NextPage
<1> QED
  BY <1>4, <1>5, <1>6, <1>7, <1>8 DEF Next, JobStep

\* With one entry a success is found by search or is about to be indexed, unless
\* the very call that was to index it failed, at its Get or at its index request,
\* or was cut off, or an earlier request was carried out late: the safety half of
\* SucceededIsFound.
THEOREM SuccessIsOnItsWay ==
  ASSUME \A x, y \in Replica : x = y
  PROVE  Spec => []SuccessOnItsWay
<1>1. Init => SuccessOnItsWay
  BY DEF Init, StoreInit, SuccessOnItsWay, Absent
<1>2. SuccessInv /\ SuccessOnItsWay /\ [Next]_vars => SuccessOnItsWay'
  <2>1. ASSUME SuccessInv, SuccessOnItsWay, Next, NEW op \in Op, status'[op] = "SUCCEEDED"
        PROVE  \/ doc'[op] = "SUCCEEDED" \/ op \in missed' \/ OutdatedLate(op)'
               \/ \E c \in Caller : Pending(c, op)'
    <3>0. TypeOK /\ Course(op) /\ CourseInv /\ SuccessRead /\ NothingOlder
      BY <2>1 DEF SuccessInv, CourseInv, IndexInv
    <3>1. CASE status[op] # "SUCCEEDED"
      <4>1. PICK r \in Replica :
              call'[<<"results", r>>].at = "get" /\ call'[<<"results", r>>].op = op
        BY <2>1, <3>0, <3>1, SuccessWritten
      <4> QED
        BY <4>1, CallersDiffer DEF Pending, Free
    <3>2. OutdatedLate(op) => OutdatedLate(op)'
      BY <2>1, <3>0, StepIndexes DEF OutdatedLate
    <3>3. CASE status[op] = "SUCCEEDED" /\ doc[op] = "SUCCEEDED"
      BY <2>1, <3>0, <3>2, <3>3, SuccessStep
    <3>4. CASE op \in missed
      BY <2>1, <3>0, <3>4, MissedStays DEF Pending, Free
    <3>5. ASSUME status[op] = "SUCCEEDED", NEW c \in Caller, Pending(c, op)
          PROVE  doc'[op] = "SUCCEEDED" \/ op \in missed' \/ Pending(c, op)'
      BY <2>1, <3>5, PendingStep
    <3> QED
      BY <2>1, <3>1, <3>2, <3>3, <3>4, <3>5 DEF SuccessOnItsWay, Pending
  <2>2. SuccessInv /\ SuccessOnItsWay /\ Next => SuccessOnItsWay'
    BY <2>1 DEF SuccessOnItsWay, Pending
  <2>3. SuccessOnItsWay /\ UNCHANGED vars => SuccessOnItsWay'
    BY DEF vars, storeVars, indexVars, SuccessOnItsWay, OutdatedLate, Free
  <2> QED
    BY <2>2, <2>3
<1> QED
  BY <1>1, <1>2, SuccessHolds, PTL DEF Spec

-----------------------------------------------------------------------------
(* Reading page after page *)

\* The newer operations a filter lets through, of the documents given.
NewerIn(filter, documents) ==
  { op \in Op : documents[op] # Absent /\ (filter = Anything \/ documents[op] = filter) }

\* There are ever only finitely many documents, whatever Op is.
FiniteDocs == IsFiniteSet(NewerIn(Anything, doc))

\* What a step may do to the documents.
DocMoves == UNCHANGED doc \/ \E op \in Op, st \in Status : doc' = [doc EXCEPT ![op] = st]

\* Only index requests write documents, in time or late, and none deletes any.
LEMMA StepDocs ==
  ASSUME TypeOK, Next
  PROVE  DocMoves /\ older' = older
<1> USE DEF indexVars
<1>1. ASSUME NEW c \in Caller, IndexOperation(c) PROVE DocMoves /\ older' = older
  <2>1. call[c].op \in Op /\ call[c].read \in Status
    BY <1>1, CallTypes DEF IndexOperation, Free
  <2>2. UNCHANGED doc \/ doc' = [doc EXCEPT ![call[c].op] = call[c].read]
    BY <1>1 DEF IndexOperation, Write
  <2>3. older' = older
    BY <1>1 DEF IndexOperation
  <2> QED
    BY <2>1, <2>2, <2>3 DEF DocMoves
<1>2. CASE IndexLate
  <2>1. PICK d \in late : doc' = [doc EXCEPT ![d.op] = d.status]
    BY <1>2 DEF IndexLate, Write
  <2>2. d.op \in Op /\ d.status \in Status
    BY <2>1 DEF TypeOK
  <2> QED
    BY <1>2, <2>1, <2>2 DEF IndexLate, DocMoves
<1>3. ASSUME UNCHANGED << doc, older >> PROVE DocMoves /\ older' = older
  BY <1>3 DEF DocMoves
<1>4. ASSUME NEW r \in Replica,
             StartEntry(r) \/ EntryEnds(r) \/ \E res \in results : HandleResult(r, res)
      PROVE  UNCHANGED << doc, older >>
  BY <1>4 DEF StartEntry, EntryEnds, HandleResult, Advance
<1>5. ASSUME NEW op \in Op, CreateUpdate(op) \/ DispatchOperation(op) \/ JobStep(op) \/ WorkerEnds(op)
      PROVE  UNCHANGED << doc, older >>
  BY <1>5 DEF CreateUpdate, DispatchOperation, Advance, JobStep, Claim, ReportTransferred, WriteStatus,
       MissStatus, ReportSucceeded, FailExecution, WorkerEnds
<1>6. ASSUME NEW c \in Caller, Get(c) \/ GetFails(c) PROVE UNCHANGED << doc, older >>
  BY <1>6 DEF Get, GetFails
<1>7. ASSUME Monitor \/ Search \/ NextPage PROVE UNCHANGED << doc, older >>
  BY <1>7 DEF Monitor, Search, NextPage
<1> QED
  BY <1>1, <1>2, <1>3, <1>4, <1>5, <1>6, <1>7 DEF Next, CallStep

\* Documents stay finitely many, and none goes.
LEMMA DocsStayFinite ==
  ASSUME TypeOK, FiniteDocs, DocMoves
  PROVE  /\ FiniteDocs'
         /\ NewerIn(Anything, doc) \subseteq NewerIn(Anything, doc')
<1>0. doc \in [Op -> Status \cup {Absent}] /\ Absent \notin Status
  BY DEF TypeOK, Absent, Status
<1>1. CASE UNCHANGED doc
  BY <1>1 DEF FiniteDocs
<1>2. ASSUME NEW op \in Op, NEW st \in Status, doc' = [doc EXCEPT ![op] = st]
      PROVE  /\ FiniteDocs'
             /\ NewerIn(Anything, doc) \subseteq NewerIn(Anything, doc')
  <2>1. NewerIn(Anything, doc') = NewerIn(Anything, doc) \cup {op}
    BY <1>0, <1>2 DEF NewerIn
  <2>2. IsFiniteSet(NewerIn(Anything, doc) \cup {op})
    BY FS_AddElement DEF FiniteDocs
  <2> QED
    BY <2>1, <2>2 DEF FiniteDocs
<1> QED
  BY <1>1, <1>2 DEF DocMoves

\* As documents are added, those of a filter are counted by more.
LEMMA CountGrows ==
  ASSUME FiniteDocs, FiniteDocs', NEW filter, NewerIn(filter, doc) \subseteq NewerIn(filter, doc')
  PROVE  /\ Cardinality(NewerIn(filter, doc)) \in Nat /\ Cardinality(NewerIn(filter, doc')) \in Nat
         /\ Cardinality(NewerIn(filter, doc)) <= Cardinality(NewerIn(filter, doc'))
<1>1. NewerIn(filter, doc) \subseteq NewerIn(Anything, doc)
      /\ NewerIn(filter, doc') \subseteq NewerIn(Anything, doc')
  BY DEF NewerIn
<1>2. IsFiniteSet(NewerIn(filter, doc)) /\ IsFiniteSet(NewerIn(filter, doc'))
  <2>1. IsFiniteSet(NewerIn(Anything, doc)) /\ IsFiniteSet(NewerIn(Anything, doc'))
    BY DEF FiniteDocs
  <2> QED
    BY <1>1, <2>1, FS_Subset
<1> QED
  BY <1>2, FS_CardinalityType, FS_Subset

\* Nothing but successes may be indexed late.
NoneOutdated == \A op \in Op : ~OutdatedLate(op)

\* What a client that pages has been shown: of the history, all that stands on
\* the pages before the one it asks for next.
ReadSoFar ==
  client.at # "away" =>
    /\ client.limit \in Limits /\ client.filter \in Filters
    /\ client.filter = Anything \/ NoneOutdated =>
         \A h \in Older(client.filter) :
           client.at = "done" \/ Position(client.filter, h) <= Offset(client.page, client.limit)
             => h \in client.seen

\* The next page begins where this one ends.
LEMMA PagesMeet ==
  ASSUME NEW page \in Nat \ {0}, NEW limit \in Nat
  PROVE  /\ Offset(page, limit) \in Nat
         /\ Offset(page + 1, limit) = Offset(page, limit) + limit
<1>1. page - 1 \in Nat /\ (page + 1) - 1 = (page - 1) + 1
  OBVIOUS
<1>2. ASSUME NEW n \in Nat PROVE n * limit \in Nat /\ (n + 1) * limit = n * limit + limit
  OBVIOUS
<1> QED
  BY <1>1, <1>2 DEF Offset

\* The next page shows what stands on it, and before an empty page nothing is left.
LEMMA NextPageReads ==
  ASSUME Limits \subseteq 1 .. MaxLimit, TypeOK, FiniteDocs, ReadSoFar, NextPage
  PROVE  ReadSoFar'
<1> DEFINE f == client.filter
           offset == Offset(client.page, client.limit)
           found == { h \in Older(f) : Position(f, h) \in offset + 1 .. offset + Clamp(client.limit) }
<1>1. /\ client \in ClientState /\ client.at = "paging" /\ UNCHANGED << doc, older >>
      /\ client.limit \in Limits /\ f \in Filters
      /\ client.limit \in 1 .. MaxLimit /\ client.page \in Nat \ {0}
  BY SearchAssumption DEF TypeOK, NextPage, ReadSoFar, ClientState, indexVars
<1>2. /\ Clamp(client.limit) = client.limit /\ client.limit \in Nat
      /\ offset \in Nat /\ Offset(client.page + 1, client.limit) = offset + client.limit
  <2>1. client.limit \in Nat /\ 1 <= client.limit /\ client.limit <= MaxLimit
    BY <1>1, SearchAssumption
  <2>2. Clamp(client.limit) = client.limit
    BY <2>1, SearchAssumption DEF Clamp
  <2>3. /\ Offset(client.page, client.limit) \in Nat
        /\ Offset(client.page + 1, client.limit) = Offset(client.page, client.limit) + client.limit
    BY <1>1, <2>1, PagesMeet
  <2> QED
    BY <2>1, <2>2, <2>3
<1>3. /\ older \in Nat /\ Cardinality(Newer(f)) \in Nat
      /\ \A h \in Older(f) : h \in 1 .. older /\ Older(f) = 1 .. older /\ Position(f, h) \in Nat
  <2>1. older \in Nat
    BY SearchAssumption DEF TypeOK
  <2>2. Newer(f) = NewerIn(f, doc) /\ NewerIn(f, doc) \subseteq NewerIn(Anything, doc)
    BY DEF Newer, NewerIn
  <2>3. Cardinality(Newer(f)) \in Nat
    BY <2>2, FS_Subset, FS_CardinalityType DEF FiniteDocs
  <2> QED
    BY <2>1, <2>3 DEF Older, Position
<1> SUFFICES ASSUME client' # Away PROVE ReadSoFar'
  BY DEF Away, ReadSoFar
<1> SUFFICES /\ client'.limit = client.limit /\ client'.filter = f
             /\ f = Anything \/ NoneOutdated =>
                  \A h \in Older(f) :
                    client'.at = "done" \/ Position(f, h) <= Offset(client'.page, client.limit)
                      => h \in client'.seen
  <2>1. UNCHANGED << doc, older, late >>
    BY DEF NextPage, indexVars
  <2> QED
    BY <1>1, <2>1 DEF ReadSoFar, NoneOutdated, OutdatedLate, Older, Position, Newer
<1>4. f = Anything \/ NoneOutdated => \A h \in Older(f) : Position(f, h) <= offset => h \in client.seen
  BY <1>1 DEF ReadSoFar
<1>5. client' = IF offset >= Hits(f) THEN [client EXCEPT !.at = "done"]
                                     ELSE [client EXCEPT !.page = @ + 1, !.seen = @ \cup found]
  BY DEF NextPage
<1>6. CASE offset >= Hits(f)
  <2>1. client' = [client EXCEPT !.at = "done"]
    BY <1>5, <1>6
  <2>2. \A h \in Older(f) : Position(f, h) <= offset
    <3> SUFFICES ASSUME NEW h \in Older(f) PROVE Position(f, h) <= offset
      OBVIOUS
    <3>1. Cardinality(Older(f)) = older
      BY <1>3, FS_Interval
    <3>2. h <= older /\ h \in Nat
      BY <1>3
    <3> QED
      BY <1>2, <1>3, <1>6, <3>1, <3>2 DEF Hits, Position
  <2>3. client'.limit = client.limit /\ client'.filter = f /\ client'.seen = client.seen
    BY <1>1, <2>1 DEF ClientState
  <2> QED
    BY <1>4, <2>2, <2>3
<1>7. CASE ~ (offset >= Hits(f))
  <2>1. client' = [client EXCEPT !.page = @ + 1, !.seen = @ \cup found]
    BY <1>5, <1>7
  <2>2. /\ client'.at = "paging" /\ client'.limit = client.limit /\ client'.filter = f
        /\ client'.page = client.page + 1 /\ client'.seen = client.seen \cup found
    BY <1>1, <2>1 DEF ClientState
  <2>3. ASSUME f = Anything \/ NoneOutdated, NEW h \in Older(f), Position(f, h) <= offset + client.limit
        PROVE  h \in client'.seen
    <3>1. CASE Position(f, h) <= offset
      BY <1>4, <2>2, <2>3, <3>1
    <3>2. CASE ~ (Position(f, h) <= offset)
      <4>1. Position(f, h) \in offset + 1 .. offset + Clamp(client.limit)
        BY <1>2, <1>3, <2>3, <3>2
      <4> QED
        BY <2>2, <4>1
    <3> QED
      BY <3>1, <3>2
  <2> QED
    BY <1>2, <2>2, <2>3
<1> QED
  BY <1>6, <1>7

\* A step takes no success out of the index, where a client searches for those
\* and nothing else may be indexed late.
KeepsSuccesses ==
  "SUCCEEDED" \in Filters =>
    \A op \in Op : doc[op] = "SUCCEEDED" /\ ~OutdatedLate(op) => doc'[op] = "SUCCEEDED"

\* Other callers' steps move what the client has yet to read further back, if at all.
LEMMA OthersOnlyAdd ==
  ASSUME TypeOK, FiniteDocs, FiniteDocs', ReadSoFar, Next, KeepsSuccesses, client' = client
  PROVE  ReadSoFar'
<1> SUFFICES ASSUME client.at # "away", client.filter = Anything \/ NoneOutdated',
                    NEW h \in Older(client.filter)',
                    client.at = "done"
                      \/ Position(client.filter, h)' <= Offset(client.page, client.limit)
             PROVE  h \in client.seen
  BY DEF ReadSoFar
<1> DEFINE f == client.filter
<1>1. /\ older' = older /\ DocMoves
      /\ client \in ClientState /\ client.limit \in Limits /\ f \in Filters
  BY StepDocs DEF TypeOK, ReadSoFar
<1>0. f = Anything \/ NoneOutdated
  <2>1. late \subseteq late'
    BY StepIndexes
  <2> QED
    BY <2>1 DEF NoneOutdated, OutdatedLate
<1>2. h \in Older(f) /\ f \in { Anything, "SUCCEEDED" } /\ h \in 1 .. older
  BY <1>1 DEF Older
<1>3. NewerIn(f, doc) \subseteq NewerIn(f, doc')
  <2>1. CASE f = Anything
    BY <1>1, <2>1, DocsStayFinite
  <2>2. CASE f = "SUCCEEDED"
    BY <1>0, <1>1, <2>2 DEF KeepsSuccesses, NoneOutdated, NewerIn, Anything, Absent
  <2> QED
    BY <1>2, <2>1, <2>2
<1>4. /\ Cardinality(Newer(f)) \in Nat /\ Cardinality(Newer(f))' \in Nat
      /\ Cardinality(Newer(f)) <= Cardinality(Newer(f))'
  BY <1>3, CountGrows DEF Newer, NewerIn
<1>5. CASE client.at = "done"
  BY <1>0, <1>2, <1>5 DEF ReadSoFar
<1>6. CASE Position(f, h)' <= Offset(client.page, client.limit)
  <2>1. client.limit \in Nat /\ client.page \in Nat \ {0} /\ h \in Nat
    BY <1>1, <1>2, SearchAssumption DEF ClientState, TypeOK
  <2>2. Offset(client.page, client.limit) \in Nat
    BY <2>1, PagesMeet
  <2>3. Position(f, h) <= Offset(client.page, client.limit)
    BY <1>4, <1>6, <2>1, <2>2 DEF Position
  <2> QED
    BY <1>0, <1>2, <2>3 DEF ReadSoFar
<1> QED
  BY <1>5, <1>6

\* Nothing has been passed when a search begins.
LEMMA SearchBegins ==
  ASSUME Limits \subseteq 1 .. MaxLimit, TypeOK, FiniteDocs, Search
  PROVE  ReadSoFar'
<1>1. PICK limit \in Limits, filter \in Filters :
        client' = [at |-> "paging", filter |-> filter, limit |-> limit, page |-> 1, seen |-> {}]
  BY DEF Search
<1>2. UNCHANGED << doc, older >> /\ limit \in Nat /\ older \in Nat
  BY SearchAssumption DEF Search, indexVars, TypeOK
<1>3. Offset(1, limit) = 0
  BY <1>2 DEF Offset
<1>4. Cardinality(Newer(filter)) \in Nat
  <2>1. Newer(filter) \subseteq NewerIn(Anything, doc)
    BY DEF Newer, NewerIn
  <2> QED
    BY <2>1, FS_Subset, FS_CardinalityType DEF FiniteDocs
<1>5. ASSUME NEW h \in Older(filter) PROVE ~ (Position(filter, h) <= 0)
  <2>1. h \in 1 .. older
    BY <1>5 DEF Older
  <2> QED
    BY <1>2, <1>4, <2>1 DEF Position
<1>6. /\ client'.at = "paging" /\ client'.filter = filter /\ client'.limit = limit
      /\ client'.page = 1
  BY <1>1
<1> QED
  BY <1>2, <1>3, <1>5, <1>6 DEF ReadSoFar, Older, Position, Newer

PagingInv == FiniteDocs /\ ReadSoFar

\* Every step keeps what a paging client relies on.
LEMMA PagingStep ==
  ASSUME Limits \subseteq 1 .. MaxLimit, TypeOK, PagingInv, [Next]_vars, [KeepsSuccesses]_vars
  PROVE  PagingInv'
<1>1. CASE UNCHANGED vars
  BY <1>1 DEF vars, indexVars, PagingInv, FiniteDocs, ReadSoFar, NoneOutdated, OutdatedLate, Older,
              Position, Newer
<1>2. CASE Next /\ ~UNCHANGED vars
  <2>1. Next /\ KeepsSuccesses
    BY <1>2
  <2>2. FiniteDocs'
    BY <2>1, StepDocs, DocsStayFinite DEF PagingInv
  <2>3. CASE Search
    BY <2>2, <2>3, SearchBegins DEF PagingInv
  <2>4. CASE NextPage
    BY <2>2, <2>4, NextPageReads DEF PagingInv
  <2>5. CASE ~Search /\ ~NextPage
    <3>1. client' = client
      BY <2>1, <2>5 DEF Next, StartEntry, EntryEnds, HandleResult, Advance, CreateUpdate,
           DispatchOperation, JobStep, Claim, ReportTransferred, WriteStatus, MissStatus, ReportSucceeded,
           FailExecution, WorkerEnds, Monitor, CallStep, Get, GetFails, IndexOperation, IndexLate
    <3> QED
      BY <2>1, <2>2, <3>1, OthersOnlyAdd DEF PagingInv
  <2> QED
    BY <2>3, <2>4, <2>5
<1> QED
  BY <1>1, <1>2

\* A client that asks for page after page, at a limit the service grants, until
\* one is empty, has found every operation that was there all the time.  The
\* history may be of any length: where it is longer than the window the client
\* does not come to an empty page, but to an error.  Where it searches for
\* successes this takes a single entry and no request for another status that
\* may be carried out late; where it searches for everything, there may be any
\* number of both.
THEOREM PagingIsComplete ==
  ASSUME Limits \subseteq 1 .. MaxLimit,
         "SUCCEEDED" \in Filters => \A x, y \in Replica : x = y
  PROVE  Spec => []PagingMissesNothing
<1>1. Init => PagingInv
  <2>1. ASSUME Init PROVE NewerIn(Anything, doc) = {} /\ client.at = "away"
    BY <2>1 DEF Init, NewerIn, Away
  <2> QED
    BY <2>1, FS_EmptySet DEF PagingInv, FiniteDocs, ReadSoFar
<1>2. Spec => [][KeepsSuccesses]_vars
  <2>1. CASE "SUCCEEDED" \in Filters
    <3>1. SuccessInv /\ [Next]_vars => [KeepsSuccesses]_vars
      BY SuccessStep DEF SuccessInv, KeepsSuccesses
    <3> QED
      BY <2>1, <3>1, SuccessHolds, PTL DEF Spec
  <2>2. CASE "SUCCEEDED" \notin Filters
    <3>1. [Next]_vars => [KeepsSuccesses]_vars
      BY <2>2 DEF KeepsSuccesses
    <3> QED
      BY <3>1, PTL DEF Spec
  <2> QED
    BY <2>1, <2>2
<1>3. TypeOK /\ PagingInv /\ [Next]_vars /\ [KeepsSuccesses]_vars => PagingInv'
  BY PagingStep
<1>4. PagingInv => PagingMissesNothing
  BY DEF PagingInv, ReadSoFar, NoneOutdated, PagingMissesNothing
<1> QED
  BY <1>1, <1>2, <1>3, <1>4, SearchTypeCorrect, PTL DEF Spec

=============================================================================

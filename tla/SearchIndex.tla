------------------------------ MODULE SearchIndex ------------------------------
(***************************************************************************)
(* The Elasticsearch index of operations: who writes it, after which reads *)
(* of the store, and what a client finds that pages through it.            *)
(*                                                                         *)
(* After its UPDATE a caller reads the row again and indexes what it read. *)
(* The three are steps of their own, and the last writer of a document     *)
(* wins: the index knows nothing of ranks.  A claim by a worker and the    *)
(* monitor's UPDATE are not indexed at all.                                *)
(*                                                                         *)
(* A Get that fails after the UPDATE, an index request that fails (which   *)
(* is logged and nothing more) and the end of the process in between leave *)
(* the row unindexed.  A request that failed at the client may still be    *)
(* carried out by Elasticsearch, later.  A job is reduced to the statuses  *)
(* it writes and the results it reports.                                   *)
(***************************************************************************)
EXTENDS OperationStore, FiniteSets

CONSTANTS
  Replica,       \* processes of the entry
  History,       \* how many documents there may be of operations older than those of Op
  DefaultLimit, MaxLimit,   \* limits SearchOperations puts in place of others
  Window,        \* how far into the results Elasticsearch reads: 10,000 by default
  MaxLate,       \* bound on the documents that may still be indexed late
  Limits,        \* limits a client asks for
  Filters        \* statuses a client searches for; Anything for all

Anything == "ANYTHING"

ASSUME SearchAssumption ==
  /\ History \in Nat /\ Window \in Nat /\ MaxLate \in Nat
  /\ MaxLimit \in Nat /\ DefaultLimit \in 1 .. MaxLimit
  /\ Limits \subseteq Nat
  /\ Filters \subseteq Status \cup {Anything}

VARIABLES
  mapping,       \* the index: none, with the mapping of EnsureIndex, or a guessed one
  older,         \* documents of older operations, all SUCCEEDED and never written again
  entry,         \* entry[r]: is the process serving?
  call,          \* call[c]: where advanceOperation or advanceStatus stands for caller c
  job,           \* job[op]: the status the worker's job has come to
  results,       \* UpdateResults published
  doc,           \* doc[op]: the status in the document of op
  missed,        \* operations whose row, since it was updated, a caller failed to index
  late,          \* documents of index requests that failed; carried out late, or never
  client         \* a client that pages through the results of a search

indexVars == << mapping, older, doc, missed, late >>
vars == << storeVars, indexVars, entry, call, job, results, client >>

\* A subscription handles one result at a time; a worker's job, and the requests
\* of the client that creates and uploads an operation, are sequential too.
Caller == ({"results"} \X Replica) \cup ({ "create", "dispatch", "job" } \X Op)

Idle == [at |-> "idle"]
CallState ==
  {Idle} \cup [at : {"get"}, op : Op, next : Status]
         \cup [at : {"index"}, op : Op, next : Status, read : Status]

ClientState == [at : { "away", "paging", "done" }, filter : Status \cup {Anything},
                limit : Nat, page : Nat \ {0}, seen : SUBSET (1 .. History)]
Away == [at |-> "away", filter |-> Anything, limit |-> 0, page |-> 1, seen |-> {}]

\* A job is where its last status took it, or on its way to FAILED: "unsaved"
\* without a backup, "failing" perhaps with one.
JobState == Status \cup { "none", "unsaved", "failing", "over" }

TypeOK ==
  /\ StoreTypeOK
  /\ mapping \in { "none", "explicit", "guessed" }
  /\ older \in 0 .. History
  /\ entry \in [Replica -> { "down", "up" }]
  /\ call \in [Caller -> CallState]
  /\ job \in [Op -> JobState]
  /\ results \subseteq [op : Op, status : Status]
  /\ doc \in [Op -> Status \cup {Absent}]
  /\ missed \subseteq Op
  /\ late \subseteq [op : Op, status : Status]
  /\ client \in ClientState

Init ==
  /\ StoreInit
  /\ mapping \in { "none", "explicit" }
  /\ older = IF mapping = "none" THEN 0 ELSE History
  /\ entry = [r \in Replica |-> "down"]
  /\ call = [c \in Caller |-> Idle]
  /\ job = [op \in Op |-> "none"]
  /\ results = {}
  /\ doc = [op \in Op |-> Absent]
  /\ missed = {} /\ late = {}
  /\ client = Away

Free(c) == call[c].at = "idle"
Serving == \E r \in Replica : entry[r] = "up"
Report(op, st) == results' = results \cup {[op |-> op, status |-> st]}

-----------------------------------------------------------------------------
(* Update, Get, Index *)

\* Mutant: what was asked for is indexed, whether or not the row was updated.
MutantAdvance(c, op, next) ==
  /\ Free(c)
  /\ AdvanceStatus(op, next) \/ (~CanAdvance(status[op], next) /\ UNCHANGED status)
  /\ call' = [call EXCEPT ![c] = [at |-> "index", op |-> op, next |-> next, read |-> next]]
  /\ UNCHANGED << file, indexVars, entry, client >>

\* The UPDATE of AdvanceStatus matches the row; the Get comes next.
Advance(c, op, next) ==
  /\ Free(c)
  /\ AdvanceStatus(op, next)
  /\ call' = [call EXCEPT ![c] = [at |-> "get", op |-> op, next |-> next]]
  /\ missed' = missed \ {op}
  /\ UNCHANGED << file, mapping, older, doc, late, entry, client >>

Get(c) ==
  /\ call[c].at = "get"
  /\ call' = [call EXCEPT ![c] =
       [at |-> "index", op |-> @.op, next |-> @.next, read |-> status[@.op]]]
  /\ UNCHANGED << storeVars, indexVars, entry, job, results, client >>

\* The calls of C come to nothing.  Of their index requests, those that have
\* been sent may be carried out late.
Lose(C) ==
  /\ missed' = missed \cup { call[c].op : c \in C }
  /\ \E sent \in SUBSET { c \in C : call[c].at = "index" } :
       late' = late \cup { [op |-> call[c].op, status |-> call[c].read] : c \in sent }
  /\ late' # late => Cardinality(late') <= MaxLate

\* Statuses a worker reports after it has written them itself.
Reported == { "FAILED", "ROLLING_BACK", "ROLLBACK_HEALTH_CHECKING", "ROLLED_BACK", "ROLLBACK_FAILED" }

\* Where a job goes when advanceStatus has returned false.  rollbackOperation
\* ignores that for two statuses, and reports them all the same.
AfterMiss ==
  [ BACKUP_CREATED |-> "unsaved", APPLYING |-> "failing", HEALTH_CHECKING |-> "failing",
    FAILED |-> "FAILED", ROLLING_BACK |-> "over",
    ROLLBACK_HEALTH_CHECKING |-> "ROLLBACK_HEALTH_CHECKING",
    ROLLED_BACK |-> "over", ROLLBACK_FAILED |-> "over" ]
Miss(op, next) ==
  /\ job' = [job EXCEPT ![op] = AfterMiss[next]]
  /\ IF AfterMiss[next] = next THEN Report(op, next) ELSE UNCHANGED results

\* The Get fails: nothing is indexed, and the caller goes on as though the
\* UPDATE had not been made.  After a dispatch no command is sent; a job that
\* was over with its FAILED does not report it.
GetFails(c) ==
  /\ CallsMayFail
  /\ call[c].at = "get"
  /\ call' = [call EXCEPT ![c] = Idle]
  /\ Lose({c})
  /\ IF c[1] = "job" /\ job[call[c].op] # "over" THEN Miss(call[c].op, call[c].next)
                                                 ELSE UNCHANGED << job, results >>
  /\ UNCHANGED << storeVars, mapping, older, doc, entry, client >>

\* What the caller does when IndexOperation has returned: the entry sends the
\* command after the dispatch, the worker reports what it has written.
Return(c) ==
  LET op == call[c].op IN
    /\ call' = [call EXCEPT ![c] = Idle]
    /\ job' = IF c[1] = "dispatch" THEN [job EXCEPT ![op] = "DISPATCHED"] ELSE job
    /\ IF c[1] = "job" /\ call[c].next \in Reported THEN Report(op, call[c].next)
                                                    ELSE UNCHANGED results

\* Elasticsearch indexes a document.  Without an index it makes one and guesses
\* its mapping.
Write(op, st) ==
  /\ doc' = [doc EXCEPT ![op] = st]
  /\ mapping' = IF mapping = "none" THEN "guessed" ELSE mapping

\* IndexOperation.
IndexOperation(c) ==
  /\ call[c].at = "index"
  /\ \/ Write(call[c].op, call[c].read) /\ UNCHANGED << missed, late >>
     \/ Lose({c}) /\ UNCHANGED << doc, mapping >>
  /\ Return(c)
  /\ UNCHANGED << storeVars, older, entry, client >>

\* A request that failed is carried out after all.
IndexLate ==
  /\ \E d \in late : Write(d.op, d.status)
  /\ UNCHANGED << storeVars, older, missed, late, entry, call, job, results, client >>

-----------------------------------------------------------------------------
(* The entry *)

\* Mutant: the index is left to the first document.
MutantEnsureIndex == UNCHANGED mapping

\* EnsureIndex: creates the index, or finds it there.
EnsureIndex == mapping' = IF mapping = "none" THEN "explicit" ELSE mapping

\* main waits for EnsureIndex to succeed before anything is served.
StartEntry(r) ==
  /\ entry[r] = "down"
  /\ EnsureIndex
  /\ entry' = [entry EXCEPT ![r] = "up"]
  /\ UNCHANGED << storeVars, older, doc, missed, late, call, job, results, client >>

\* The process ends, and with it the call for its results and those for the
\* requests it serves, which are all there are if no other process is up.
EntryEnds(r) ==
  /\ entry[r] = "up"
  /\ entry' = [entry EXCEPT ![r] = "down"]
  /\ LET requests == { c \in Caller : c[1] \in { "create", "dispatch" } /\ ~Free(c) }
         own == { c \in { <<"results", r>> } : ~Free(c) }
     IN  \E served \in SUBSET requests :
           /\ (\A x \in Replica : entry'[x] = "down") => served = requests
           /\ Lose(own \cup served)
           /\ call' = [c \in Caller |-> IF c \in own \cup served THEN Idle ELSE call[c]]
  /\ UNCHANGED << storeVars, mapping, older, doc, job, results, client >>

\* Mutant: the operation is read again, and an INSERT that failed goes unnoticed.
MutantCreateUpdate(op) ==
  /\ Serving
  /\ CreateRow(op) \/ (status[op] = Absent /\ UNCHANGED status)
  /\ call' = [call EXCEPT ![<<"create", op>>] = [at |-> "get", op |-> op, next |-> "PENDING"]]
  /\ UNCHANGED << file, indexVars, entry, job, results, client >>

\* handleCreateUpdate indexes the operation it has inserted, without a Get.
CreateUpdate(op) ==
  /\ Serving
  /\ CreateRow(op)
  /\ call' = [call EXCEPT ![<<"create", op>>] =
       [at |-> "index", op |-> op, next |-> "PENDING", read |-> "PENDING"]]
  /\ UNCHANGED << file, indexVars, entry, job, results, client >>

\* dispatchOperation, for a client that has been told the id of its operation.
DispatchOperation(op) ==
  /\ Serving
  /\ Free(<<"create", op>>)
  /\ Advance(<<"dispatch", op>>, op, "DISPATCHED")
  /\ UNCHANGED << job, results >>

\* handleResult: a refused status is not indexed.
HandleResult(r, res) ==
  /\ entry[r] = "up"
  /\ res \in results
  /\ Advance(<<"results", r>>, res.op, res.status)
  /\ UNCHANGED << job, results >>

-----------------------------------------------------------------------------
(* The worker *)

JobFree(op) == Free(<<"job", op>>)

\* ClaimForExecution, which is not indexed, and the report of RUNNING.
Claim(op) ==
  /\ job[op] = "DISPATCHED"
  /\ ClaimForExecution(op)
  /\ job' = [job EXCEPT ![op] = "RUNNING"]
  /\ Report(op, "RUNNING")
  /\ UNCHANGED << file, indexVars, entry, call, client >>

\* TRANSFERRED and SUCCEEDED are reported and not written.
ReportTransferred(op) ==
  /\ job[op] = "RUNNING"
  /\ job' = [job EXCEPT ![op] = "TRANSFERRED"]
  /\ Report(op, "TRANSFERRED")
  /\ UNCHANGED << storeVars, indexVars, entry, call, client >>

\* Mutant: the worker indexes in a goroutine and goes on.
MutantReportSucceeded(op) ==
  /\ job[op] = "HEALTH_CHECKING"
  /\ job' = [job EXCEPT ![op] = "over"]
  /\ Report(op, "SUCCEEDED")
  /\ UNCHANGED << storeVars, indexVars, entry, call, client >>

ReportSucceeded(op) ==
  /\ JobFree(op) /\ job[op] = "HEALTH_CHECKING"
  /\ job' = [job EXCEPT ![op] = "over"]
  /\ Report(op, "SUCCEEDED")
  /\ UNCHANGED << storeVars, indexVars, entry, call, client >>

\* The statuses executeUpdate and rollbackOperation write one after another.
WritesNext ==
  [ TRANSFERRED |-> {"BACKUP_CREATED"},
    BACKUP_CREATED |-> {"APPLYING"},
    APPLYING |-> { "HEALTH_CHECKING", "FAILED" },
    HEALTH_CHECKING |-> {"FAILED"},
    failing |-> {"FAILED"},
    FAILED |-> {"ROLLING_BACK"},
    ROLLING_BACK |-> { "ROLLBACK_HEALTH_CHECKING", "ROLLBACK_FAILED" },
    ROLLBACK_HEALTH_CHECKING |-> { "ROLLED_BACK", "ROLLBACK_FAILED" } ]

\* advanceStatus of the worker ...
WriteStatus(op) ==
  /\ job[op] \in DOMAIN WritesNext
  /\ \E next \in WritesNext[job[op]] :
       /\ Advance(<<"job", op>>, op, next)
       /\ job' = [job EXCEPT ![op] = next]
  /\ UNCHANGED results

\* ... and when its UPDATE fails, or matches no row because the monitor was
\* faster.
MissStatus(op) ==
  /\ JobFree(op) /\ job[op] \in DOMAIN WritesNext
  /\ \E next \in WritesNext[job[op]] :
       /\ CallsMayFail \/ ~CanAdvance(status[op], next)
       /\ Miss(op, next)
  /\ UNCHANGED << storeVars, indexVars, entry, call, client >>

\* handleExecutionFailure: nothing to roll back to.
FailExecution(op) ==
  /\ job[op] \in { "RUNNING", "TRANSFERRED", "BACKUP_CREATED", "APPLYING", "HEALTH_CHECKING",
                   "unsaved", "failing" }
  /\ Advance(<<"job", op>>, op, "FAILED")
  /\ job' = [job EXCEPT ![op] = "over"]
  /\ UNCHANGED results

\* The process ends, and with it the call it is making; or the job is abandoned
\* because its last UPDATE or a report failed.
WorkerEnds(op) ==
  /\ job[op] # "none"
  /\ job[op] # "over" \/ ~JobFree(op)
  /\ job' = [job EXCEPT ![op] = "over"]
  /\ Lose({ c \in { <<"job", op>> } : ~Free(c) })
  /\ call' = [call EXCEPT ![<<"job", op>>] = Idle]
  /\ UNCHANGED << storeVars, mapping, older, doc, entry, results, client >>

\* The timeout monitor writes the store alone.
Monitor ==
  /\ \E expired \in SUBSET Op : Reap(expired)
  /\ UNCHANGED << indexVars, entry, call, job, results, client >>

-----------------------------------------------------------------------------
(* Searching *)

\* SearchOperations on the limit it is given.
Clamp(limit) == IF limit <= 0 THEN DefaultLimit ELSE IF limit > MaxLimit THEN MaxLimit ELSE limit

\* The operations of Op that the filter lets through; they are newer than the
\* history, so the documents of the history come after them, in their order.
Newer(filter) ==
  { op \in Op : doc[op] # Absent /\ (filter = Anything \/ doc[op] = filter) }
Older(filter) == IF filter \in { Anything, "SUCCEEDED" } THEN 1 .. older ELSE {}
Position(filter, h) == Cardinality(Newer(filter)) + h
Hits(filter) == Cardinality(Newer(filter)) + Cardinality(Older(filter))

\* Mutant: pages are counted from 0.
MutantOffset(page, limit) == page * limit
\* handleSearchOperations, from the limit as the client gave it.
Offset(page, limit) == (page - 1) * limit

\* A client sets out to read all pages of a search.
Search ==
  /\ Serving
  /\ client.at # "paging"
  /\ \E limit \in Limits, filter \in Filters :
       client' = [at |-> "paging", filter |-> filter, limit |-> limit, page |-> 1, seen |-> {}]
  /\ UNCHANGED << storeVars, indexVars, entry, call, job, results >>

\* One page, until one is empty.  (The total that comes with each is capped by
\* Elasticsearch and not looked at here.)  The search fails when the page ends
\* beyond the window, and may fail otherwise; the client gives up then.
NextPage ==
  /\ client.at = "paging"
  /\ LET offset == Offset(client.page, client.limit)
         found == { h \in Older(client.filter) :
                      Position(client.filter, h) \in offset + 1 .. offset + Clamp(client.limit) }
     IN  \/ /\ offset + Clamp(client.limit) <= Window
            /\ client' = IF offset >= Hits(client.filter)
                         THEN [client EXCEPT !.at = "done"]
                         ELSE [client EXCEPT !.page = @ + 1, !.seen = @ \cup found]
         \/ client' = Away
  /\ UNCHANGED << storeVars, indexVars, entry, call, job, results >>

-----------------------------------------------------------------------------
JobStep(op) ==
  \/ Claim(op) \/ ReportTransferred(op) \/ WriteStatus(op) \/ MissStatus(op)
  \/ ReportSucceeded(op) \/ FailExecution(op)

CallStep(c) == Get(c) \/ GetFails(c) \/ IndexOperation(c)

Next ==
  \/ \E r \in Replica :
       StartEntry(r) \/ EntryEnds(r) \/ \E res \in results : HandleResult(r, res)
  \/ \E op \in Op : CreateUpdate(op) \/ DispatchOperation(op) \/ JobStep(op) \/ WorkerEnds(op)
  \/ Monitor
  \/ \E c \in Caller : CallStep(c)
  \/ IndexLate
  \/ Search \/ NextPage

Spec == Init /\ [][Next]_vars

\* A call that has been made returns: each has a timeout.  Nothing is assumed
\* of clients, of the delivery of results, of the course of a job or of requests
\* that failed.
FairSpec == Spec /\ \A c \in Caller : WF_vars(CallStep(c))

-----------------------------------------------------------------------------
(* Properties *)

\* Search never shows a status that the operation has not reached: what is
\* indexed was read from the row.
IndexNeverAhead ==
  \A op \in Op : doc[op] # Absent =>
    /\ status[op] \in Status
    /\ statusRank[doc[op]] <= statusRank[status[op]]
    /\ statusRank[doc[op]] = statusRank[status[op]] => doc[op] = status[op]

\* Documents are only ever put into an index with the mapping of EnsureIndex,
\* whose keywords the filters of a search need, whoever indexes first.
FiltersWork == mapping # "guessed"

\* A request that failed may still put something else than a success in the index.
OutdatedLate(op) == \E d \in late : d.op = op /\ d.status # "SUCCEEDED"

\* With one entry search goes on showing a success: whatever is still to be
\* indexed of the operation was read after it, unless it is to be indexed late.
SuccessStaysFound ==
  [][\A op \in Op :
       doc[op] = "SUCCEEDED" /\ ~OutdatedLate(op) => doc'[op] = "SUCCEEDED"]_vars

\* With one entry a success that search does not show is about to be indexed, or
\* the call that was to index it has failed or been cut off, or a request that
\* failed before may have been carried out late.  No interleaving loses it, and
\* no failure of an earlier call does.
SuccessOnItsWay ==
  \A op \in Op : status[op] = "SUCCEEDED" =>
    \/ doc[op] = "SUCCEEDED" \/ op \in missed \/ OutdatedLate(op)
    \/ \E c \in Caller : /\ ~Free(c) /\ call[c].op = op
                         /\ call[c].at = "index" => call[c].read = "SUCCEEDED"

\* A client that reads page after page, at a limit the service grants, until one
\* is empty, finds every operation that was there all the time, while others
\* appear or reach the status it searches for; where the window ends it gets an
\* error.  (Where successes may be shown as something else again, with several
\* entries or documents indexed late, a search for successes may miss one.)
PagingMissesNothing ==
  client.at = "done" /\ (client.filter = Anything \/ \A op \in Op : ~OutdatedLate(op))
    => Older(client.filter) \subseteq client.seen

\* With one entry, whose subscription handles results one by one, a success is
\* found by search in the end, with the exceptions of SuccessOnItsWay; for its
\* staying there see SuccessStaysFound.
SucceededIsFound ==
  \A op \in Op :
    status[op] = "SUCCEEDED" ~> doc[op] = "SUCCEEDED" \/ op \in missed \/ OutdatedLate(op)
=============================================================================

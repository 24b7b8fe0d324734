---------------------------- MODULE OperationStore ----------------------------
(***************************************************************************)
(* The MariaDB tables the entry and the workers share: operations (one     *)
(* status per operation) and operation_files (at most one row per          *)
(* operation, its primary key).  Every statement is one atomic step.       *)
(***************************************************************************)
EXTENDS OperationStatus

CONSTANTS
  Op,            \* operation ids, one per accepted create request
  Upload,        \* tusd uploads
  UploadOp,      \* UploadOp[u]: the operation_id in the metadata of upload u
  NoUpload,      \* no row in operation_files
  CallsMayFail   \* calls to MariaDB and NATS may return an error

ASSUME StoreAssumption ==
  /\ UploadOp \in [Upload -> Op]
  /\ NoUpload \notin Upload
  /\ CallsMayFail \in BOOLEAN

VARIABLES
  status,        \* operations.status, or Absent
  file           \* the upload described by the operation_files row, or NoUpload

storeVars == << status, file >>

StoreTypeOK ==
  /\ status \in [Op -> Status \cup {Absent}]
  /\ file \in [Op -> Upload \cup {NoUpload}]

StoreInit ==
  /\ status = [op \in Op |-> Absent]
  /\ file = [op \in Op |-> NoUpload]

-----------------------------------------------------------------------------
\* OperationRepository.Create: a new row is PENDING (handleCreateUpdate).
CreateRow(op) ==
  /\ status[op] = Absent
  /\ status' = [status EXCEPT ![op] = "PENDING"]

\* OperationRepository.AdvanceStatus when it reports rows affected.
AdvanceStatus(op, next) ==
  /\ CanAdvance(status[op], next)
  /\ status' = [status EXCEPT ![op] = next]

\* AdvanceStatus followed by Get, as the worker's advanceStatus and the entry's
\* advanceOperation call them; ok is what they report.  They report false when
\* the UPDATE matched no row or failed, and also when it was applied and the Get
\* that follows it failed.
AdvanceThenGet(op, next, ok) ==
  \/ ok /\ AdvanceStatus(op, next)
  \/ /\ ~ok
     /\ CallsMayFail \/ ~CanAdvance(status[op], next)
     /\ UNCHANGED status
  \/ ~ok /\ CallsMayFail /\ AdvanceStatus(op, next)

\* Mutant: the claim accepts an operation that is already running.
MutantClaimForExecution(op) ==
  /\ status[op] \in { "DISPATCHED", "RUNNING" }
  /\ status' = [status EXCEPT ![op] = "RUNNING"]

\* ClaimForExecution: the conditional UPDATE that gives an operation its worker.
ClaimForExecution(op) ==
  /\ status[op] = "DISPATCHED"
  /\ status' = [status EXCEPT ![op] = "RUNNING"]

\* Mutant: an INSERT ... ON DUPLICATE KEY UPDATE.
MutantSaveFile(u) == file' = [file EXCEPT ![UploadOp[u]] = u]

\* FileRepository.Create: an INSERT, refused when the operation has a row.
SaveFile(u) ==
  /\ file[UploadOp[u]] = NoUpload
  /\ file' = [file EXCEPT ![UploadOp[u]] = u]

\* Mutant: a status of its own for timed-out operations, unknown to statusRank.
MutantReap(expired) ==
  /\ expired # {}
  /\ \A op \in expired : status[op] \in Reapable
  /\ status' = [op \in Op |-> IF op \in expired THEN "TIMED_OUT" ELSE status[op]]
  /\ UNCHANGED file

\* TimeoutMonitor.check: one UPDATE over all operations in a reapable status.
\* Which of them are older than the monitor's cutoff is left open: every worker
\* runs a monitor with its own clock and its own OPERATION_TIMEOUT, so no order
\* between the age of a row and the deadlines of the worker that holds it is
\* assumed.
Reap(expired) ==
  /\ expired # {}
  /\ \A op \in expired : status[op] \in Reapable
  /\ status' = [op \in Op |-> IF op \in expired THEN "FAILED" ELSE status[op]]
  /\ UNCHANGED file
=============================================================================

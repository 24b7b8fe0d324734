--------------------------- MODULE OperationStatus ---------------------------
(***************************************************************************)
(* The status of an update operation and the rank order the operation     *)
(* store imposes on it (internal/operation).  This module has no state:   *)
(* it is the vocabulary of every other module.                            *)
(***************************************************************************)
EXTENDS Naturals

\* The values of operation.Status, with the rank statusRank gives each of them.
statusRank ==
  [ PENDING |-> 0, DISPATCHED |-> 1, RUNNING |-> 2, TRANSFERRED |-> 3,
    BACKUP_CREATED |-> 4, APPLYING |-> 5, HEALTH_CHECKING |-> 6,
    SUCCEEDED |-> 7, FAILED |-> 7, ROLLING_BACK |-> 8,
    ROLLBACK_HEALTH_CHECKING |-> 9, ROLLED_BACK |-> 10, ROLLBACK_FAILED |-> 11 ]

Status ==
  { "PENDING", "DISPATCHED", "RUNNING", "TRANSFERRED", "BACKUP_CREATED",
    "APPLYING", "HEALTH_CHECKING", "SUCCEEDED", "FAILED", "ROLLING_BACK",
    "ROLLBACK_HEALTH_CHECKING", "ROLLED_BACK", "ROLLBACK_FAILED" }

\* The value standing for "no row in the operations table".
Absent == "ABSENT"

\* Status.IsTerminal.
Terminal == { "SUCCEEDED", "FAILED", "ROLLED_BACK", "ROLLBACK_FAILED" }

\* Mutant: the monitor also fails operations that are being applied.
MutantReapable ==
  { "DISPATCHED", "RUNNING", "TRANSFERRED", "APPLYING", "HEALTH_CHECKING" }

\* Mutant: the monitor forgets operations no worker has claimed.
MutantReapableClaimed == { "RUNNING", "TRANSFERRED", "HEALTH_CHECKING" }

\* The statuses the timeout monitor's UPDATE selects.
Reapable == { "DISPATCHED", "RUNNING", "TRANSFERRED", "HEALTH_CHECKING" }

\* Mutant: an UPDATE without the rank condition.
MutantCanAdvance(cur, next) == cur \in Status

\* The WHERE clause of AdvanceStatus: a row moves to a strictly higher rank, or
\* is rewritten with the SUCCEEDED or FAILED it already holds.
CanAdvance(cur, next) ==
  /\ cur \in Status
  /\ \/ statusRank[cur] < statusRank[next]
     \/ cur = next /\ cur \in { "SUCCEEDED", "FAILED" }
=============================================================================

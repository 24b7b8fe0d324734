-------------------------- MODULE OperationLifecycle --------------------------
(***************************************************************************)
(* What a client that polls an operation may see: the status of each       *)
(* operation moves along the edges of the documented state machine, and    *)
(* along no other.  It says nothing of workers, messages or files.         *)
(***************************************************************************)
EXTENDS OperationStatus

CONSTANT Op

VARIABLE status

\* Edges[s]: the statuses that may follow s.  Work that has started may go to
\* FAILED from any step; TRANSFERRED is written by the entry alone and may be
\* skipped; a rollback may begin without FAILED having been written first.
Edges ==
  [ ABSENT |-> {"PENDING"},
    PENDING |-> {"DISPATCHED"},
    DISPATCHED |-> {"RUNNING", "FAILED"},
    RUNNING |-> {"TRANSFERRED", "BACKUP_CREATED", "FAILED"},
    TRANSFERRED |-> {"BACKUP_CREATED", "FAILED"},
    BACKUP_CREATED |-> {"APPLYING", "FAILED", "ROLLING_BACK"},
    APPLYING |-> {"HEALTH_CHECKING", "FAILED", "ROLLING_BACK"},
    HEALTH_CHECKING |-> {"SUCCEEDED", "FAILED", "ROLLING_BACK"},
    SUCCEEDED |-> {},
    FAILED |-> {"ROLLING_BACK"},
    ROLLING_BACK |-> {"ROLLBACK_HEALTH_CHECKING", "ROLLED_BACK", "ROLLBACK_FAILED"},
    ROLLBACK_HEALTH_CHECKING |-> {"ROLLED_BACK", "ROLLBACK_FAILED"},
    ROLLED_BACK |-> {},
    ROLLBACK_FAILED |-> {} ]

Init == status = [op \in Op |-> Absent]

\* One statement on the store; the timeout monitor fails several rows at once.
Next ==
  \E changed \in SUBSET Op :
    /\ \A op \in changed : status'[op] \in Edges[status[op]]
    /\ \A op \in Op \ changed : status'[op] = status[op]
    /\ DOMAIN status' = Op

Spec == Init /\ [][Next]_status
=============================================================================

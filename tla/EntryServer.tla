------------------------------ MODULE EntryServer ------------------------------
(***************************************************************************)
(* The entry service: the create-update handler, the two tusd hooks, the   *)
(* dispatch of an uploaded file to its node, and the handler of update     *)
(* results.  An upload is one client's resumable upload; its state is the  *)
(* position of the hook that serves it.  The replicas of the entry share   *)
(* nothing but the store, so uploads interleave freely.                    *)
(***************************************************************************)
EXTENDS Messaging

CONSTANT NotOnline   \* no instance of the node is registered and ONLINE

ASSUME EntryAssumption == NotOnline \notin Instance

VARIABLES
  registry,      \* registry[n]: the instance registered for an ONLINE node n
  upload         \* upload[u].at: what the hooks do next for upload u

entryVars == << registry, upload >>

UploadAt == { "new", "uploading", "stored", "located", "dispatched", "over" }

EntryTypeOK ==
  /\ registry \in [Node -> Instance \cup {NotOnline}]
  /\ upload \in [Upload -> [at : UploadAt, instance : Instance \cup {NotOnline}]]

EntryInit ==
  /\ registry = [n \in Node |-> NotOnline]
  /\ upload = [u \in Upload |-> [at |-> "new", instance |-> NotOnline]]

Online(n) == registry[n] # NotOnline
UploadGoto(u, at) == upload' = [upload EXCEPT ![u].at = at]
UploadOver(u) == upload' = [upload EXCEPT ![u] = [at |-> "over", instance |-> NotOnline]]

-----------------------------------------------------------------------------
(* Operations *)

\* handleCreateUpdate: the target node must be ONLINE.
CreateUpdate(op) ==
  /\ Online(OpNode[op])
  /\ CreateRow(op)
  /\ UNCHANGED << file, busVars, entryVars >>

\* handleResult: apply the status of one delivered result; one that the store
\* refuses changes nothing.
HandleResult(r) ==
  /\ r \in results
  /\ AdvanceStatus(r.op, r.status)
  /\ UNCHANGED << file, busVars, entryVars >>

-----------------------------------------------------------------------------
(* The node registry, reduced to what dispatch reads of it *)

\* A registration or heartbeat makes the instance the node's ONLINE instance.
RegisterNode(n, i) ==
  /\ registry' = [registry EXCEPT ![n] = i]
  /\ UNCHANGED << storeVars, busVars, upload >>

\* A goodbye, an expired lease or a drain request.
NodeUnavailable(n) ==
  /\ Online(n)
  /\ registry' = [registry EXCEPT ![n] = NotOnline]
  /\ UNCHANGED << storeVars, busVars, upload >>

-----------------------------------------------------------------------------
(* Uploads *)

\* onTusdUploadCreate: an operation that is not PENDING is answered 409, but
\* without an error, so that tusd creates the upload all the same.  The client
\* may go on with it.
UploadCreate(u) ==
  /\ upload[u].at = "new"
  /\ status[UploadOp[u]] # Absent
  /\ \/ UploadGoto(u, "uploading")
     \/ status[UploadOp[u]] # "PENDING" /\ UploadOver(u)
  /\ UNCHANGED << storeVars, busVars, registry >>

\* onTusdUploadFinish up to FileRepo.Create.  An error ends the hook, also one
\* reported for an INSERT that took effect.
UploadFinish(u) ==
  /\ upload[u].at = "uploading"
  /\ \/ SaveFile(u) /\ UploadGoto(u, "stored")
     \/ CallsMayFail /\ SaveFile(u) /\ UploadOver(u)
     \/ /\ CallsMayFail \/ file[UploadOp[u]] # NoUpload
        /\ UploadOver(u)
        /\ UNCHANGED file
  /\ UNCHANGED << status, busVars, registry >>

\* dispatchOperation reads the node and keeps its instance id for the command.
LocateNode(u) ==
  /\ upload[u].at = "stored"
  /\ LET n == OpNode[UploadOp[u]] IN
       \/ /\ Online(n)
          /\ upload' = [upload EXCEPT ![u] = [at |-> "located", instance |-> registry[n]]]
       \/ /\ CallsMayFail \/ ~Online(n)
          /\ UploadOver(u)
  /\ UNCHANGED << storeVars, busVars, registry >>

\* dispatchOperation advances the operation to DISPATCHED, or gives up.
MarkDispatched(u) ==
  /\ upload[u].at = "located"
  /\ \E ok \in BOOLEAN :
       /\ AdvanceThenGet(UploadOp[u], "DISPATCHED", ok)
       /\ IF ok THEN UploadGoto(u, "dispatched") ELSE UploadOver(u)
  /\ UNCHANGED << file, busVars, registry >>

\* dispatchOperation publishes the command; what Publish or Flush return makes
\* no difference to the state, a failed one may or may not have sent it.
PublishCommand(u) ==
  /\ upload[u].at = "dispatched"
  /\ commands' = commands \cup
       {[op |-> UploadOp[u], instance |-> upload[u].instance, file |-> u]}
  /\ UploadOver(u)
  /\ UNCHANGED << storeVars, results, registry >>

\* The entry stops, or the client's request is cancelled, between two steps of
\* a hook; nothing resumes it.
UploadAborted(u) ==
  /\ upload[u].at \notin { "new", "over" }
  /\ UploadOver(u)
  /\ UNCHANGED << storeVars, busVars, registry >>
=============================================================================

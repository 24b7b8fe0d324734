------------------------------- MODULE Messaging -------------------------------
(***************************************************************************)
(* The NATS subjects between the entry and the workers.  Both are sets     *)
(* that only grow: a message may be delivered late, out of order, more     *)
(* than once (every entry replica subscribes to the result subject) or     *)
(* never (core NATS keeps nothing for an absent subscriber).               *)
(***************************************************************************)
EXTENDS OperationStore

CONSTANTS
  Node,          \* node ids
  OpNode,        \* OpNode[op]: the node_id the client gave when creating op
  Instance       \* instance ids of worker processes

ASSUME MessagingAssumption == OpNode \in [Op -> Node]

VARIABLES
  commands,      \* UpdateCommands published on update.command.<node>
  results        \* UpdateResults published on update.result

busVars == << commands, results >>

\* What an UpdateCommand carries that the worker acts on; the subject is
\* OpNode[op], the file is described by its name, size and SHA-256.
Command == [op : Op, instance : Instance, file : Upload]
Result == [op : Op, status : Status]

BusTypeOK ==
  /\ commands \subseteq Command
  /\ results \subseteq Result

BusInit == commands = {} /\ results = {}

\* Server.publishResult.
PublishResult(op, st) == results' = results \cup {[op |-> op, status |-> st]}
=============================================================================

----------------------------- MODULE MCUpdateFlow -----------------------------
(***************************************************************************)
(* Instances of UpdateFlow for TLC.                                        *)
(***************************************************************************)
EXTENDS UpdateFlow, TLC

CONSTANTS a, b,        \* operations
          ua, ub,      \* uploads
          n1,          \* a node
          v, w, x,     \* runs of the worker process
          i, j,        \* instance ids
          l1           \* a location

\* Two uploads for operation a; or one for each of a and b.
BothForA == ua :> a @@ ub :> a
OnePerOp == ua :> a @@ ub :> b
OnlyA == ua :> a

\* Operations by target node.
OnN1 == [op \in Op |-> n1]

\* Runs of the worker of node n1.
SameNode == [run \in Worker |-> n1]

\* Two runs that bear random ids of their own; or two that share a
\* NODE_INCARNATION_ID and one that has another.
OwnInstance == v :> i @@ w :> j
SharedInstance == v :> i @@ w :> i @@ x :> j

OneRoot == [n \in Node |-> l1]
=============================================================================

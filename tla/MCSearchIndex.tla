----------------------------- MODULE MCSearchIndex -----------------------------
(***************************************************************************)
(* Instances of SearchIndex for TLC.                                       *)
(***************************************************************************)
EXTENDS SearchIndex, TLC

CONSTANTS a,      \* an operation
          u,      \* an upload
          r       \* a process of the entry

OnlyA == u :> a
=============================================================================

----------------------------- MODULE MCNodeRegistry -----------------------------
(***************************************************************************)
(* Instances of NodeRegistry for TLC.                                      *)
(***************************************************************************)
EXTENDS NodeRegistry, TLC

CONSTANTS r1, r2,      \* entry replicas
          drain, undrain

DrainThenUndrain == drain :> "DRAINING" @@ undrain :> "ONLINE"
OnlyDrain == drain :> "DRAINING"
NoRequest == << >>
=============================================================================

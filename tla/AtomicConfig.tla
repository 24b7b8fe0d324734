----------------------------- MODULE AtomicConfig -----------------------------
(***************************************************************************)
(* What the deployment of a configuration promises, in one step each: a    *)
(* job keeps the configuration it is about to replace, installs its own,   *)
(* and may put the kept one back.  Whoever reads the configuration, also   *)
(* after a power failure, reads a whole one.                               *)
(*                                                                         *)
(* FileDeployment implements this specification with copies, fsync and     *)
(* rename; the steps Backup, Apply and Restore of WorkerServer are its     *)
(* steps.                                                                  *)
(***************************************************************************)
CONSTANTS
  Job,           \* jobs, each with a configuration to install, known by the same name
  OldConfig,     \* a configuration installed before
  NoConfig       \* no configuration, nothing kept

VARIABLES
  config,        \* the configuration a reader finds
  stable,        \* the configuration that is there after a power failure
  kept           \* kept[j]: the configuration job j may put back

vars == << config, stable, kept >>

Init ==
  /\ config \in { OldConfig, NoConfig }
  /\ stable = config
  /\ kept = [j \in Job |-> NoConfig]

\* A change of the configuration is stable at once or later.
Becomes(c) == config' = c /\ stable' \in { stable, c }

Keep(j) ==
  /\ config # NoConfig
  /\ kept' = [kept EXCEPT ![j] = config]
  /\ UNCHANGED << config, stable >>

\* What a job replaces is what it has kept.
Install(j) ==
  /\ kept[j] = config
  /\ Becomes(j)
  /\ UNCHANGED kept

Restore(j) ==
  /\ kept[j] # NoConfig
  /\ Becomes(kept[j])
  /\ kept' \in { kept, [kept EXCEPT ![j] = NoConfig] }

Forget(j) ==
  /\ kept' = [kept EXCEPT ![j] = NoConfig]
  /\ UNCHANGED << config, stable >>

Stabilize == stable' = config /\ UNCHANGED << config, kept >>

PowerFailure ==
  /\ config' = stable
  /\ kept' = [j \in Job |-> NoConfig]
  /\ UNCHANGED stable

Next ==
  \/ \E j \in Job : Keep(j) \/ Install(j) \/ Restore(j) \/ Forget(j)
  \/ Stabilize
  \/ PowerFailure

Spec == Init /\ [][Next]_vars
=============================================================================

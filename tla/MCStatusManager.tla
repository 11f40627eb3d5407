-------------------------- MODULE MCStatusManager --------------------------
(***************************************************************************)
(* Small instances of StatusManager for TLC.                               *)
(***************************************************************************)
EXTENDS StatusManager

DaemonSetStatus(desired, updated, available) ==
  [desired |-> desired, updated |-> updated, available |-> available,
   unavailable |-> desired - available]
DeploymentStatus(replicas, available) ==
  [available |-> available, unavailable |-> replicas - available]

\* A rollout that goes on and is done; the spec may also be ahead of either
AgentStatuses == {DaemonSetStatus(2, 1, 1), DaemonSetStatus(2, 2, 2)}
ControllerStatuses == {DeploymentStatus(1, 1)}

\* The second version renders one object more, and two no longer
TwoManifests == <<{"config", "crd", "ns"}, {"config", "webhook"}>>
OneManifest == <<{"config"}>>
=============================================================================

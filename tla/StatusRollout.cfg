\* OpenShift: rollouts of both workloads that go on, stand still or end.
SPECIFICATION FairSpec
CONSTANTS
  Nil = Nil
  Platform = "openshift"
  DaemonSets = {"antrea-agent"}
  Deployments = {"antrea-controller"}
  DaemonSetStatuses <- AgentStatuses
  DeploymentStatuses <- ControllerStatuses
  ProgressTimeout = 0
  Manifest <- OneManifest
  Namespaces = {}
  Unmapped = {}
  MaxAttempts = 1
  MaxReports = 1
  MaxChanges = 2
  MaxFailures = 0
  MaxRestarts = 0
\* Nothing runs until the install reconciler has published its objects
CHECK_DEADLOCK FALSE
INVARIANT InstallFollowsOperator
PROPERTIES
  RolloutIsReported
  HungIsDetected
  VersionIsEarned

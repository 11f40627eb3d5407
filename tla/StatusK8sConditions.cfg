\* Kubernetes: a rollout, nothing fails.
SPECIFICATION FairSpec
CONSTANTS
  Nil = Nil
  Platform = "kubernetes"
  DaemonSets = {"antrea-agent"}
  Deployments = {}
  DaemonSetStatuses <- AgentStatuses
  DeploymentStatuses <- ControllerStatuses
  ProgressTimeout = 1
  Manifest <- OneManifest
  Namespaces = {}
  Unmapped = {}
  MaxAttempts = 2
  MaxReports = 1
  MaxChanges = 1
  MaxFailures = 0
  MaxRestarts = 0
\* Nothing runs until the install reconciler has published its objects
CHECK_DEADLOCK FALSE
PROPERTIES
  RolloutIsReported

\* OpenShift: objects of two versions, a failed call, an upgrade or a crash.
SPECIFICATION FairSpec
CONSTANTS
  Nil = Nil
  Platform = "openshift"
  DaemonSets = {}
  Deployments = {"antrea-controller"}
  DaemonSetStatuses = {}
  DeploymentStatuses = {}
  ProgressTimeout = 0
  Manifest <- TwoManifests
  Namespaces = {"ns"}
  Unmapped = {"config", "webhook"}
  MaxAttempts = 2
  MaxReports = 2
  MaxChanges = 0
  MaxFailures = 1
  MaxRestarts = 1
\* Nothing runs until the install reconciler has published its objects
CHECK_DEADLOCK FALSE
INVARIANTS
  TypeOK
  InstallFollowsOperator
PROPERTIES
  RelatedUntilGone
  RenderedIsKept
  DegradedIsCurrent
  InstallCopiesOperator
  OperationsGoForward
  LeftoversAreDeleted
  DegradedIsReported

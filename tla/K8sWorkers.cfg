\* Kubernetes, both workers: one edit, and two of a deleted workload, a failed call
\* and a crash.
SPECIFICATION OperatorFairSpec
CONSTANTS
  Nil = Nil
  Absent = Absent
  Malformed = Malformed
  CIDRs <- MCCIDRs
  IPv4CIDRs <- MCIPv4CIDRs
  MTUs = {1400, 1450}
  DefaultMTU = 1450
  Images = {"antrea-ubi", "mirror"}
  DefaultAntreaImage = "antrea-ubi"
  NoImage = ""
  Options = {"a", "b"}
  Platform = "kubernetes"
  InstallEdits <- K8sWorkerSpecs
  NetworkEdits <- None
  OperatorNetworkEdits <- None
  MaxEdits = 1
  MaxFailures = 1
  MaxRestarts = 1
  MaxDeletions = 1
  MaxDisturbances = 2
\* After a restart that leaves nothing to apply, both workers really wait for an event
CHECK_DEADLOCK FALSE
INVARIANTS
  PodTypeOK
  WorkloadsAreLatest
  ClusterIsAsWritten
  ResyncIsKept
PROPERTIES
  StoreSpec
  DeletionIsKept
  DeletedComesBack
  StatusIsFollowed

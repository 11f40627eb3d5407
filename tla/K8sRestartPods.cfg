\* Kubernetes, one edit around one crash: the pods keep the old configuration.
SPECIFICATION Spec
CONSTANTS
  Nil = Nil
  Absent = Absent
  Malformed = Malformed
  CIDRs <- MCCIDRs
  IPv4CIDRs <- MCIPv4CIDRs
  MTUs = {1400, 1450}
  DefaultMTU = 1450
  Images = {"antrea-ubi", "mirror"}
  DefaultAntreaImage = "antrea-ubi"
  NoImage = ""
  Options = {"a", "b"}
  Platform = "kubernetes"
  InstallEdits <- K8sOneImageSpecs
  NetworkEdits <- None
  OperatorNetworkEdits <- None
  MaxEdits = 1
  MaxFailures = 0
  MaxRestarts = 1
\* The operator does not start until the AntreaInstall resource exists
CHECK_DEADLOCK FALSE
INVARIANT PodsPickUpChanges

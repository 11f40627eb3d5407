\* Kubernetes, one failed call during the first installation.
SPECIFICATION Spec
CONSTANTS
  Nil = Nil
  Absent = Absent
  Malformed = Malformed
  CIDRs <- MCCIDRs
  IPv4CIDRs <- MCIPv4CIDRs
  MTUs = {1400, 1450}
  DefaultMTU = 1450
  Images = {"antrea-ubi", "mirror"}
  DefaultAntreaImage = "antrea-ubi"
  NoImage = ""
  Options = {"a", "b"}
  Platform = "kubernetes"
  InstallEdits <- K8sFewSpecs
  NetworkEdits <- None
  OperatorNetworkEdits <- None
  MaxEdits = 0
  MaxFailures = 1
  MaxRestarts = 0
INVARIANT InstallComplete

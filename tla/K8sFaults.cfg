\* Kubernetes, two edits, a failed API call and a crash, under fairness.
SPECIFICATION FairSpec
CONSTANTS
  Nil = Nil
  Absent = Absent
  Malformed = Malformed
  CIDRs <- MCCIDRs
  IPv4CIDRs <- MCIPv4CIDRs
  MTUs = {1400, 1450}
  DefaultMTU = 1450
  Images = {"antrea-ubi", "mirror"}
  DefaultAntreaImage = "antrea-ubi"
  NoImage = ""
  Options = {"a", "b"}
  Platform = "kubernetes"
  InstallEdits <- K8sAnySpecs
  NetworkEdits <- None
  OperatorNetworkEdits <- None
  MaxEdits = 2
  MaxFailures = 1
  MaxRestarts = 1
\* The operator does not start until the AntreaInstall resource exists
CHECK_DEADLOCK FALSE
INVARIANTS
  TypeOK
  QuiescentAgreement
  CrashSafeObjects
PROPERTIES
  ConfigMapComesFirst
  EditsAreHandled

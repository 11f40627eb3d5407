\* OpenShift, three edits of either resource, nothing fails.
SPECIFICATION Spec
CONSTANTS
  Nil = Nil
  Absent = Absent
  Malformed = Malformed
  CIDRs <- MCCIDRs
  IPv4CIDRs <- MCIPv4CIDRs
  MTUs = {1400, 1450}
  DefaultMTU = 1450
  Images = {"antrea-ubi", "mirror"}
  DefaultAntreaImage = "antrea-ubi"
  NoImage = ""
  Options = {"a", "b"}
  Platform = "openshift"
  InstallEdits <- OcSpecs
  NetworkEdits <- OcNetworks
  OperatorNetworkEdits <- OcBothOperatorNetworks
  MaxEdits = 3
  MaxFailures = 0
  MaxRestarts = 0
INVARIANTS
  ClusterMatchesApplied
  EditsAreApplied
  PodsPickUpChanges
  NetworkStatusCurrent
  SharedInfoIsCurrent

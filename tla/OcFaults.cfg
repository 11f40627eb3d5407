\* OpenShift under fairness: two edits, a failed call, resources that are missing,
\* configurations that are rejected or that panic.
SPECIFICATION FairSpec
CONSTANTS
  Nil = Nil
  Absent = Absent
  Malformed = Malformed
  CIDRs <- MCCIDRs
  IPv4CIDRs <- MCIPv4CIDRs
  MTUs = {1400, 1450}
  DefaultMTU = 1450
  Images = {"antrea-ubi", "mirror"}
  DefaultAntreaImage = "antrea-ubi"
  NoImage = ""
  Options = {"a", "b"}
  Platform = "openshift"
  InstallEdits <- OcFaultSpecs
  NetworkEdits <- OcFaultNetworks
  OperatorNetworkEdits <- OcAnyOperatorNetworks
  MaxEdits = 2
  MaxFailures = 1
  MaxRestarts = 0
INVARIANT QuiescentAgreement
PROPERTY InvalidConfigStaysReported

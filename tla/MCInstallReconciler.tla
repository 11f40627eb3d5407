------------------------ MODULE MCInstallReconciler ------------------------
(***************************************************************************)
(* Small instances of InstallReconciler for TLC.                           *)
(***************************************************************************)
EXTENDS InstallReconciler

\* Values of the constants of OperatorConfig
MCCIDRs == {"10.96.0.0/12", "172.30.0.0/16", "10.128.0.0/14", "fd01::/48"}
MCIPv4CIDRs == MCCIDRs \ {"fd01::/48"}

-----------------------------------------------------------------------------
\* Configurations on Kubernetes.

Agent(cidr, mtu, opts) ==
  [parses |-> TRUE, canonical |-> FALSE, serviceCIDR |-> cidr,
   defaultMTU |-> mtu, options |-> opts]

Controller(opts) ==
  [parses |-> TRUE, canonical |-> TRUE, nodeIPAM |-> FALSE,
   clusterCIDRs |-> << >>, maskIPv4 |-> 0, maskIPv6 |-> 0,
   serviceCIDR |-> Absent, serviceCIDRv6 |-> Absent, options |-> opts]

CNI(opts) == [canonical |-> TRUE, options |-> opts]
UnclippedCNI(opts) == [canonical |-> FALSE, options |-> opts]

SampleSpec ==
  [agent |-> Agent("10.96.0.0/12", Absent, "a"), cni |-> CNI("a"),
   controller |-> Controller("a"), image |-> NoImage]

\* Completed by hand: FillConfigs leaves it as it is
TunedSpec ==
  [SampleSpec EXCEPT
     !.agent = [parses |-> TRUE, canonical |-> TRUE, serviceCIDR |-> "10.96.0.0/12",
                defaultMTU |-> 1400, options |-> "a"],
     !.image = "mirror"]

SameImageSpec ==
  [SampleSpec EXCEPT !.cni = UnclippedCNI("b"), !.controller = Controller("b")]

ControllerSpec == [SampleSpec EXCEPT !.controller = Controller("b")]

NoServiceCIDRSpec == [SampleSpec EXCEPT !.agent.serviceCIDR = Absent]

RetunedSpec == [TunedSpec EXCEPT !.image = NoImage]

\* With a single image, with two, and with a text that is rejected
K8sOneImageSpecs == {SampleSpec, RetunedSpec, ControllerSpec, SameImageSpec, Nil}
K8sFewSpecs == {SampleSpec, TunedSpec, SameImageSpec}
K8sRejectedSpecs == {SampleSpec, TunedSpec, NoServiceCIDRSpec}
K8sAnySpecs == K8sRejectedSpecs \cup {Nil}

-----------------------------------------------------------------------------
\* Configurations and networks on OpenShift.

ClusterEntry(c, p) == [cidr |-> c, hostPrefix |-> p]

DefaultNet ==
  [serviceNetwork |-> <<"172.30.0.0/16">>,
   clusterNetwork |-> <<ClusterEntry("10.128.0.0/14", 23)>>,
   networkType |-> "antrea"]

DualStackNet ==
  [DefaultNet EXCEPT
     !.clusterNetwork = <<ClusterEntry("fd01::/48", 64)>> \o @]

MovedNet == [DefaultNet EXCEPT !.serviceNetwork = <<"10.96.0.0/12">>]

EmptyNet == [DefaultNet EXCEPT !.serviceNetwork = << >>]

OcSpec == [SampleSpec EXCEPT !.agent.serviceCIDR = Absent]
OcMTUSpec == [OcSpec EXCEPT !.agent.defaultMTU = 1400]
OcControllerSpec == [OcSpec EXCEPT !.cni = CNI("b"), !.controller = Controller("b")]
OcQuotedMTUSpec == [OcControllerSpec EXCEPT !.agent.defaultMTU = Malformed]
OcUnparsableSpec == [OcSpec EXCEPT !.controller.parses = FALSE]

MultusOn == [disableMultiNetwork |-> FALSE]

None == {}
OcSpecs == {OcSpec, OcMTUSpec, OcControllerSpec}
OcFaultSpecs == {OcSpec, OcQuotedMTUSpec, OcUnparsableSpec}
OcNetworks == {DefaultNet, DualStackNet, MovedNet}
OcFaultNetworks == {DefaultNet, EmptyNet, Nil}
OcOperatorNetworks == {MultusOn}
OcBothOperatorNetworks == {MultusOn, [disableMultiNetwork |-> TRUE]}
OcAnyOperatorNetworks == {MultusOn, Nil}
=============================================================================

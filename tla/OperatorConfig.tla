--------------------------- MODULE OperatorConfig ---------------------------
(***************************************************************************)
(* The pure functions of controllers/config/config.go: how the operator    *)
(* completes, validates, compares and renders the configuration a user     *)
(* writes in the AntreaInstall custom resource.                            *)
(*                                                                         *)
(* A configuration text is abstracted to a record of what the operator     *)
(* reads in it.  The field canonical tells whether the text is a fixed     *)
(* point of the rewriting it goes through on its way to the cluster (a     *)
(* YAML round trip for what the operator completes, the clipping of the    *)
(* trailing newlines of a block literal for what it only embeds): two      *)
(* texts that differ in nothing else are still different strings.          *)
(***************************************************************************)
EXTENDS Integers, Sequences

CONSTANTS
  Nil,                \* a nil pointer, an object that does not exist
  Absent,             \* an option that a text does not set
  Malformed,          \* an option set to a value of the wrong YAML type
  CIDRs,              \* the network ranges, of which
  IPv4CIDRs,          \* these are IPv4
  MTUs,               \* the integers a text may give as defaultMTU
  DefaultMTU,         \* types.DefaultMTU
  Images,             \* image references, of which
  DefaultAntreaImage, \* types.DefaultAntreaImage
  NoImage,            \* the empty string
  Options             \* everything else a text may hold

ASSUME ConfigAssumption ==
  /\ Absent # Malformed
  /\ {Absent, Malformed} \cap CIDRs = {}
  /\ {Absent, Malformed} \cap MTUs = {}
  /\ IPv4CIDRs \subseteq CIDRs
  /\ DefaultMTU \in MTUs
  /\ DefaultAntreaImage \in Images
  /\ NoImage \notin Images

-----------------------------------------------------------------------------
\* The texts and objects the operator works on.

AgentTexts ==
  [parses      : BOOLEAN,          \* the text is a YAML mapping
   canonical   : BOOLEAN,
   serviceCIDR : CIDRs \cup {Absent, Malformed},
   defaultMTU  : MTUs \cup {Absent, Malformed},
   options     : Options]

CNITexts == [canonical : BOOLEAN, options : Options]

ControllerTexts ==
  [parses        : BOOLEAN,        \* the text is a ControllerConfig
   canonical     : BOOLEAN,
   nodeIPAM      : BOOLEAN,        \* featureGates.NodeIPAM and enableNodeIPAM
   clusterCIDRs  : Seq(CIDRs),
   maskIPv4      : Int,
   maskIPv6      : Int,
   serviceCIDR   : CIDRs \cup {Absent},
   serviceCIDRv6 : CIDRs \cup {Absent},
   options       : Options]

\* AntreaInstallSpec; antreaPlatform is read once, when the process starts
OperSpecs ==
  [agent      : AgentTexts,
   cni        : CNITexts,
   controller : ControllerTexts,
   image      : Images \cup {NoImage}]

\* The part of the OpenShift Network.config.openshift.io spec that is read
NetworkSpecs ==
  [serviceNetwork : Seq(CIDRs),
   clusterNetwork : Seq([cidr : CIDRs, hostPrefix : Int]),
   networkType    : STRING]

-----------------------------------------------------------------------------
\* Helpers of the file.

inSlice(str, s) == \E i \in DOMAIN s : s[i] = str

\* One-sided: every element of a is in b, and the lengths agree.
stringSliceEqual(a, b) ==
  /\ Len(a) = Len(b)
  /\ \A i \in DOMAIN a : inSlice(a[i], b)

ClusterCIDRsOf(net) ==
  [i \in DOMAIN net.clusterNetwork |-> net.clusterNetwork[i].cidr]

\* The first position of a member of family in cidrs, 0 when there is none.
FirstOf(family, cidrs) ==
  IF \E i \in DOMAIN cidrs : cidrs[i] \in family
  THEN CHOOSE i \in DOMAIN cidrs :
         cidrs[i] \in family /\ \A j \in 1..(i - 1) : cidrs[j] \notin family
  ELSE 0

-----------------------------------------------------------------------------
(***************************************************************************)
(* FillConfigs.  net is Nil on Kubernetes and the cluster Network on       *)
(* OpenShift, which is also what selects the filling of the controller's   *)
(* text.  The service CIDR of the agent comes from the cluster unless the  *)
(* user chose one of the cluster's.                                        *)
(***************************************************************************)
AgentFillable(net, text) ==
  /\ text.parses
  /\ net = Nil => text.serviceCIDR # Absent

fillAgentConfig(net, text) ==
  [text EXCEPT
     !.canonical   = TRUE,
     !.serviceCIDR = IF net = Nil \/ inSlice(@, net.serviceNetwork)
                     THEN @ ELSE net.serviceNetwork[1],
     !.defaultMTU  = IF @ = Absent THEN DefaultMTU ELSE @]

\* ServiceNetwork[0] is evaluated without looking at the length.
FillPanics(net, spec) ==
  /\ spec.agent.parses
  /\ net # Nil
  /\ net.serviceNetwork = << >>

\* The first range of each IP family, in the order of the list; the ranges
\* already in the user's text stay in front.
fillControllerConfig(net, text) ==
  LET IPv6CIDRs == CIDRs \ IPv4CIDRs
      cidrs     == ClusterCIDRsOf(net)
      c4        == FirstOf(IPv4CIDRs, cidrs)
      c6        == FirstOf(IPv6CIDRs, cidrs)
      s4        == FirstOf(IPv4CIDRs, net.serviceNetwork)
      s6        == FirstOf(IPv6CIDRs, net.serviceNetwork)
      Found(i)  == i # 0
      firsts    == SelectSeq(IF c4 < c6 THEN <<c4, c6>> ELSE <<c6, c4>>, Found)
  IN  [text EXCEPT
         !.canonical     = TRUE,
         !.nodeIPAM      = TRUE,
         !.clusterCIDRs  = @ \o [k \in DOMAIN firsts |-> cidrs[firsts[k]]],
         !.maskIPv4      = IF c4 = 0 THEN @ ELSE net.clusterNetwork[c4].hostPrefix,
         !.maskIPv6      = IF c6 = 0 THEN @ ELSE net.clusterNetwork[c6].hostPrefix,
         !.serviceCIDR   = IF s4 = 0 THEN @ ELSE net.serviceNetwork[s4],
         !.serviceCIDRv6 = IF s6 = 0 THEN @ ELSE net.serviceNetwork[s6]]

\* FillConfigs returns no error
Fillable(net, spec) ==
  /\ AgentFillable(net, spec.agent)
  /\ net # Nil => spec.controller.parses

FillConfigs(net, spec) ==
  [spec EXCEPT
     !.agent      = fillAgentConfig(net, @),
     !.controller = IF net = Nil THEN @ ELSE fillControllerConfig(net, @),
     !.image      = IF @ = NoImage THEN DefaultAntreaImage ELSE @]

-----------------------------------------------------------------------------
\* ValidateConfig returns no error.
ValidateConfig(net, spec) ==
  /\ spec.image # NoImage
  /\ spec.agent.parses
  /\ IF net = Nil THEN spec.agent.serviceCIDR # Absent
                  ELSE inSlice(spec.agent.serviceCIDR, net.serviceNetwork)

\* What applyConfig accepts: the user's text can be completed, and the
\* completed text passes the validation.
Accepts(net, spec) ==
  /\ Fillable(net, spec)
  /\ ValidateConfig(net, FillConfigs(net, spec))

-----------------------------------------------------------------------------
\* Mutants of NeedApplyChange: a field is not compared.
NeedApplyChange_NoAgentText(pre, cur) ==
  IF pre = Nil
  THEN [agent |-> TRUE, controller |-> TRUE, image |-> FALSE]
  ELSE LET image == pre.image # cur.image
       IN  [agent      |-> image \/ pre.cni # cur.cni,
            controller |-> image \/ pre.controller # cur.controller,
            image      |-> image]

NeedApplyChange_NoControllerText(pre, cur) ==
  IF pre = Nil
  THEN [agent |-> TRUE, controller |-> TRUE, image |-> FALSE]
  ELSE LET image == pre.image # cur.image
       IN  [agent      |-> image \/ pre.agent # cur.agent \/ pre.cni # cur.cni,
            controller |-> image,
            image      |-> image]

NeedApplyChange_NoImage(pre, cur) ==
  IF pre = Nil
  THEN [agent |-> TRUE, controller |-> TRUE, image |-> FALSE]
  ELSE [agent      |-> pre.agent # cur.agent \/ pre.cni # cur.cni,
        controller |-> pre.controller # cur.controller,
        image      |-> FALSE]

\* NeedApplyChange: which parts of the installation cur changes over pre.
NeedApplyChange(pre, cur) ==
  IF pre = Nil
  THEN [agent |-> TRUE, controller |-> TRUE, image |-> FALSE]
  ELSE LET image == pre.image # cur.image
       IN  [agent      |-> image \/ pre.agent # cur.agent \/ pre.cni # cur.cni,
            controller |-> image \/ pre.controller # cur.controller,
            image      |-> image]

\* Mutant: only the service network is compared.
HasClusterNetworkConfigChange_NoClusterNetwork(pre, cur) ==
  pre # Nil => ~ stringSliceEqual(pre.serviceNetwork, cur.serviceNetwork)

HasClusterNetworkConfigChange(pre, cur) ==
  pre # Nil =>
    \/ ~ stringSliceEqual(pre.serviceNetwork, cur.serviceNetwork)
    \/ ~ stringSliceEqual(ClusterCIDRsOf(pre), ClusterCIDRsOf(cur))

\* Both texts are completed ones: they parse and set the option.
HasDefaultMTUChange(pre, cur) ==
  pre # Nil => pre.agent.defaultMTU # cur.agent.defaultMTU

\* curDefaultMTU.(int), the unchecked type assertion of HasDefaultMTUChange
MTUPanics(cur) == cur.agent.defaultMTU = Malformed

BuildNetworkStatus(net, mtu) ==
  [serviceNetwork |-> net.serviceNetwork,
   clusterNetwork |-> net.clusterNetwork,
   networkType    |-> net.networkType,
   mtu            |-> mtu]

-----------------------------------------------------------------------------
(***************************************************************************)
(* generateRenderData and the manifest.  Of the objects of antrea.yml,     *)
(* these three embed configuration; RenderDir keeps their order.           *)
(***************************************************************************)
pluginCNIConfDir(opn) ==
  IF opn.disableMultiNetwork THEN "SystemCNIConfDir" ELSE "MultusCNIConfDir"

CNIConfDir(opn) == IF opn = Nil THEN "DefaultNetDir" ELSE pluginCNIConfDir(opn)

\* A text embedded in a block literal and read back from the ConfigMap.
Embed(text) == [text EXCEPT !.canonical = TRUE]

Rendered(spec, opn) ==
  [configMap  |-> [agent      |-> Embed(spec.agent),
                   cni        |-> Embed(spec.cni),
                   controller |-> Embed(spec.controller)],
   deployment |-> [image |-> spec.image],
   daemonSet  |-> [image |-> spec.image, cniConfDir |-> CNIConfDir(opn)]]

\* The configuration getAppliedOperConfig reconstructs from the cluster.
ReadBack(configMap, deployment) ==
  [agent      |-> configMap.agent,
   cni        |-> configMap.cni,
   controller |-> configMap.controller,
   image      |-> deployment.image]

-----------------------------------------------------------------------------
\* To speak of lists of ranges: their ranges, and a list that repeats none.
Elements(s) == {s[i] : i \in DOMAIN s}
Distinct(s) == \A i, j \in DOMAIN s : s[i] = s[j] => i = j
=============================================================================

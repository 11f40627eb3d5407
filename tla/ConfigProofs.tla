---------------------------- MODULE ConfigProofs ----------------------------
(***************************************************************************)
(* What the functions of config.go compute, for all texts, all networks    *)
(* and all ranges.                                                         *)
(***************************************************************************)
EXTENDS OperatorConfig, FiniteSetTheorems, SequenceTheorems,
        WellFoundedInduction, TLAPS

-----------------------------------------------------------------------------
(***************************************************************************)
(* The comparison of two lists of ranges.                                  *)
(***************************************************************************)
\* config.go stringSliceEqual looks from the first list into the second only.  That is
\* enough if the first list repeats nothing: with equal lengths, nothing is left over in
\* the second.  (It is not enough otherwise: <<A, A>> is found to equal <<A, B>>.)
THEOREM OneSideIsEnough ==
  ASSUME NEW S, NEW a \in Seq(S), NEW b \in Seq(S), Distinct(a), stringSliceEqual(a, b)
  PROVE  stringSliceEqual(b, a) /\ Elements(a) = Elements(b)
<1> DEFINE n == Len(a)
           f == [i \in 1..n |-> CHOOSE j \in 1..n : b[j] = a[i]]
<1>1. n \in Nat /\ DOMAIN a = 1..n /\ DOMAIN b = 1..n /\ Len(b) = n
  BY DEF stringSliceEqual
<1>2. \A i \in 1..n : \E j \in 1..n : b[j] = a[i]
  BY <1>1 DEF stringSliceEqual, inSlice
<1>3. \A i \in 1..n : f[i] \in 1..n /\ b[f[i]] = a[i]
  BY <1>2
<1> HIDE DEF f
<1>4. f \in Injection(1..n, 1..n)
  <2>1. f \in [1..n -> 1..n]
    BY <1>3 DEF f
  <2>2. \A i, j \in 1..n : f[i] = f[j] => i = j
    BY <1>1, <1>3 DEF Distinct
  <2> QED
    BY <2>1, <2>2 DEF Injection, IsInjective
<1>5. f \in Surjection(1..n, 1..n)
  BY <1>1, <1>4, FS_Interval, FS_Injection
<1>6. \A j \in 1..n : \E i \in 1..n : a[i] = b[j]
  <2>1. SUFFICES ASSUME NEW j \in 1..n PROVE \E i \in 1..n : a[i] = b[j]
    OBVIOUS
  <2>2. PICK i \in 1..n : f[i] = j
    BY <1>5 DEF Surjection
  <2> QED
    BY <1>3, <2>2
<1>7. stringSliceEqual(b, a)
  BY <1>1, <1>6 DEF stringSliceEqual, inSlice
<1>8. Elements(a) = Elements(b)
  <2>1. Elements(a) = {a[i] : i \in 1..n} /\ Elements(b) = {b[i] : i \in 1..n}
    BY <1>1 DEF Elements
  <2>2. \A x \in Elements(a) : x \in Elements(b)
    BY <1>2, <2>1
  <2>3. \A x \in Elements(b) : x \in Elements(a)
    BY <1>6, <2>1
  <2> QED
    BY <2>2, <2>3
<1> QED
  BY <1>7, <1>8

\* The ranges of a Network are lists of ranges.
LEMMA RangesTyped ==
  ASSUME NEW n \in NetworkSpecs
  PROVE  n.serviceNetwork \in Seq(CIDRs) /\ ClusterCIDRsOf(n) \in Seq(CIDRs)
<1>1. n.serviceNetwork \in Seq(CIDRs)
  BY DEF NetworkSpecs
<1> DEFINE net == n.clusterNetwork
<1>2. net \in Seq([cidr : CIDRs, hostPrefix : Int])
  BY DEF NetworkSpecs
<1>3. ClusterCIDRsOf(n) = [i \in 1..Len(net) |-> net[i].cidr]
  BY <1>2 DEF ClusterCIDRsOf
<1> HIDE DEF net
<1>4. Len(net) \in Nat /\ \A i \in 1..Len(net) : net[i].cidr \in CIDRs
  <2>1. Len(net) \in Nat /\ \A i \in 1..Len(net) : net[i] \in [cidr : CIDRs, hostPrefix : Int]
    BY <1>2, LenProperties, ElementOfSeq
  <2> QED
    BY <2>1
<1>5. ClusterCIDRsOf(n) \in Seq(CIDRs)
  BY <1>3, <1>4
<1> QED
  BY <1>1, <1>5

\* config.go HasClusterNetworkConfigChange: no change of the cluster's ranges is missed
\* (other than of their order), if the ranges seen before are distinct.
THEOREM NoRangeIsMissed ==
  ASSUME NEW pre \in NetworkSpecs, NEW cur \in NetworkSpecs, pre # Nil, cur # Nil,
         Distinct(pre.serviceNetwork), Distinct(ClusterCIDRsOf(pre)),
         ~ HasClusterNetworkConfigChange(pre, cur)
  PROVE  /\ Elements(pre.serviceNetwork) = Elements(cur.serviceNetwork)
         /\ Elements(ClusterCIDRsOf(pre)) = Elements(ClusterCIDRsOf(cur))
         /\ ~ HasClusterNetworkConfigChange(cur, pre)
<1>1. \A n \in NetworkSpecs : n.serviceNetwork \in Seq(CIDRs) /\ ClusterCIDRsOf(n) \in Seq(CIDRs)
  BY RangesTyped
<1>2. /\ stringSliceEqual(pre.serviceNetwork, cur.serviceNetwork)
      /\ stringSliceEqual(ClusterCIDRsOf(pre), ClusterCIDRsOf(cur))
  BY DEF HasClusterNetworkConfigChange
<1>3. /\ stringSliceEqual(cur.serviceNetwork, pre.serviceNetwork)
      /\ Elements(pre.serviceNetwork) = Elements(cur.serviceNetwork)
  BY <1>1, <1>2, OneSideIsEnough
<1>4. /\ stringSliceEqual(ClusterCIDRsOf(cur), ClusterCIDRsOf(pre))
      /\ Elements(ClusterCIDRsOf(pre)) = Elements(ClusterCIDRsOf(cur))
  <2>1. ClusterCIDRsOf(pre) \in Seq(CIDRs) /\ ClusterCIDRsOf(cur) \in Seq(CIDRs)
    BY <1>1
  <2> QED
    BY <1>2, <2>1, OneSideIsEnough, Zenon
<1>5. ~ HasClusterNetworkConfigChange(cur, pre)
  BY <1>3, <1>4, Zenon DEF HasClusterNetworkConfigChange
<1> QED
  BY <1>3, <1>4, <1>5, Zenon
-----------------------------------------------------------------------------
(***************************************************************************)
(* What a restarted operator sees: it has forgotten the configuration it   *)
(* applied and reads it back from the objects of the cluster.              *)
(***************************************************************************)
\* Embedding a text loses its layout and nothing else.
LEMMA EmbedKeeps ==
  ASSUME NEW text \in [canonical : BOOLEAN, options : Options] \cup
                              AgentTexts \cup ControllerTexts
  PROVE  Embed(text) = text <=> text.canonical
<1>1. CASE text \in [canonical : BOOLEAN, options : Options]
  BY <1>1 DEF Embed
<1>2. CASE text \in AgentTexts
  BY <1>2 DEF Embed, AgentTexts
<1>3. CASE text \in ControllerTexts
  BY <1>3 DEF Embed, ControllerTexts
<1> QED
  BY <1>1, <1>2, <1>3

\* antreainstall_controller.go getAppliedOperConfig and config.go NeedApplyChange: reading
\* back what was rendered shows the image as it was, and shows a text as changed exactly
\* when it lost its layout on the way.
THEOREM RestartSeesOnlyLayout ==
  ASSUME NEW spec \in OperSpecs, NEW opn,
         ReadBack(Rendered(spec, opn).configMap, Rendered(spec, opn).deployment) # Nil
  PROVE  NeedApplyChange(ReadBack(Rendered(spec, opn).configMap,
                                  Rendered(spec, opn).deployment), spec)
           = [agent      |-> ~ (spec.agent.canonical /\ spec.cni.canonical),
              controller |-> ~ spec.controller.canonical,
              image      |-> FALSE]
<1> DEFINE seen == ReadBack(Rendered(spec, opn).configMap, Rendered(spec, opn).deployment)
<1>1. /\ spec.agent \in AgentTexts
      /\ spec.cni \in CNITexts
      /\ spec.controller \in ControllerTexts
  BY DEF OperSpecs
<1>2. /\ seen.agent = Embed(spec.agent)
      /\ seen.cni = Embed(spec.cni)
      /\ seen.controller = Embed(spec.controller)
      /\ seen.image = spec.image
  BY DEF ReadBack, Rendered
<1>3. /\ seen.agent # spec.agent <=> ~ spec.agent.canonical
      /\ seen.cni # spec.cni <=> ~ spec.cni.canonical
      /\ seen.controller # spec.controller <=> ~ spec.controller.canonical
  BY <1>1, <1>2, EmbedKeeps DEF CNITexts
<1>4. seen # Nil
  OBVIOUS
<1> HIDE DEF seen
<1>5. NeedApplyChange(seen, spec)
        = [agent      |-> seen.agent # spec.agent \/ seen.cni # spec.cni,
           controller |-> seen.controller # spec.controller,
           image      |-> FALSE]
  BY <1>2, <1>4 DEF NeedApplyChange
<1>6. NeedApplyChange(seen, spec)
        = [agent      |-> ~ (spec.agent.canonical /\ spec.cni.canonical),
           controller |-> ~ spec.controller.canonical,
           image      |-> FALSE]
  BY <1>3, <1>5
<1> QED
  BY <1>6 DEF seen

\* config.go FillConfigs on Kubernetes: completing a completed configuration changes
\* nothing, so that a reconciliation of an unedited AntreaInstall computes what the one
\* before it did.
THEOREM FillingTwice ==
  ASSUME NEW spec \in OperSpecs
  PROVE  FillConfigs(Nil, FillConfigs(Nil, spec)) = FillConfigs(Nil, spec)
<1> DEFINE once  == FillConfigs(Nil, spec)
           image == IF spec.image = NoImage THEN DefaultAntreaImage ELSE spec.image
<1>1. spec.agent \in AgentTexts
  BY DEF OperSpecs
<1>2. once = [spec EXCEPT !.agent = fillAgentConfig(Nil, spec.agent), !.image = image]
  BY DEF FillConfigs, OperSpecs
<1>3. fillAgentConfig(Nil, fillAgentConfig(Nil, spec.agent)) = fillAgentConfig(Nil, spec.agent)
  BY <1>1, ConfigAssumption DEF fillAgentConfig, AgentTexts, ConfigAssumption
<1>4. once.agent = fillAgentConfig(Nil, spec.agent) /\ once.image = image
  BY <1>2 DEF OperSpecs
<1>5. once.image # NoImage
  BY <1>4, ConfigAssumption DEF ConfigAssumption
<1>6. once = [once EXCEPT !.agent = once.agent, !.image = once.image]
  BY <1>2 DEF OperSpecs
<1> QED
  BY <1>3, <1>4, <1>5, <1>6 DEF FillConfigs
-----------------------------------------------------------------------------
(***************************************************************************)
(* The ranges a completed controller text takes from the cluster.          *)
(***************************************************************************)
\* The search for the first range of an IP family finds one if there is one, and no
\* earlier one.
LEMMA FirstOfFinds ==
  ASSUME NEW family, NEW S, NEW cidrs \in Seq(S)
  PROVE  LET first == FirstOf(family, cidrs)
         IN  IF \E i \in DOMAIN cidrs : cidrs[i] \in family
             THEN /\ first \in 1..Len(cidrs)
                  /\ cidrs[first] \in family
                  /\ \A j \in 1..(first - 1) : cidrs[j] \notin family
             ELSE first = 0
<1> DEFINE found == {i \in 1..Len(cidrs) : cidrs[i] \in family}
           least(i) == cidrs[i] \in family /\ \A j \in 1..(i - 1) : cidrs[j] \notin family
<1>1. Len(cidrs) \in Nat /\ DOMAIN cidrs = 1..Len(cidrs)
  BY LenProperties
<1>2. CASE \E i \in DOMAIN cidrs : cidrs[i] \in family
  <2>1. found # {} /\ found \subseteq Nat
    BY <1>1, <1>2
  <2> HIDE DEF found
  <2>2. PICK i \in found : \A j \in found : ~ (<<j, i>> \in OpToRel(<, Nat))
    BY <2>1, NatLessThanWellFounded, WFMin, Zenon
  <2>3. \A j \in found : ~ (j < i)
    BY <2>1, <2>2 DEF OpToRel
  <2>4. i \in DOMAIN cidrs /\ least(i)
    BY <1>1, <2>3 DEF found
  <2>5. FirstOf(family, cidrs) = CHOOSE k \in DOMAIN cidrs : least(k)
    BY <1>2 DEF FirstOf
  <2> HIDE DEF least
  <2>6. FirstOf(family, cidrs) \in DOMAIN cidrs /\ least(FirstOf(family, cidrs))
    BY <2>4, <2>5
  <2> QED
    BY <1>1, <1>2, <2>6 DEF least
<1>3. CASE ~ \E i \in DOMAIN cidrs : cidrs[i] \in family
  BY <1>3 DEF FirstOf
<1> QED
  BY <1>2, <1>3
IsFirst(i, family, cidrs) ==
  /\ i \in DOMAIN cidrs
  /\ cidrs[i] \in family
  /\ \A j \in 1..(i - 1) : cidrs[j] \notin family

\* There is only one first range of a family.
LEMMA FirstIsUnique ==
  ASSUME NEW family, NEW S, NEW cidrs \in Seq(S), NEW i, IsFirst(i, family, cidrs)
  PROVE  FirstOf(family, cidrs) = i /\ i # 0
<1> DEFINE first == FirstOf(family, cidrs)
<1>1. Len(cidrs) \in Nat /\ DOMAIN cidrs = 1..Len(cidrs)
  BY LenProperties
<1>2. /\ first \in 1..Len(cidrs)
      /\ cidrs[first] \in family
      /\ \A j \in 1..(first - 1) : cidrs[j] \notin family
  BY FirstOfFinds DEF IsFirst
<1> HIDE DEF first
<1>3. i \in 1..Len(cidrs) /\ cidrs[i] \in family /\ \A j \in 1..(i - 1) : cidrs[j] \notin family
  BY <1>1 DEF IsFirst
<1>4. ~ (first < i) /\ ~ (i < first)
  BY <1>1, <1>2, <1>3
<1>5. first = i /\ i # 0
  BY <1>1, <1>2, <1>3, <1>4
<1> QED
  BY <1>5 DEF first

\* config.go fillControllerConfig: the service ranges of the controller are the first ones
\* of each IP family of the cluster, whatever the user wrote, the mask of a family is the
\* host prefix of the entry that holds its first cluster range, and for a family that the
\* cluster does not have the user's text stays as it is.
THEOREM ControllerFollowsTheCluster ==
  ASSUME NEW net \in NetworkSpecs, NEW text \in ControllerTexts
  PROVE  LET filled == fillControllerConfig(net, text)
             v6     == CIDRs \ IPv4CIDRs
             cidrs  == ClusterCIDRsOf(net)
             HasNone(family, s) == \A i \in DOMAIN s : s[i] \notin family
         IN  /\ \A i : IsFirst(i, IPv4CIDRs, net.serviceNetwork)
                         => filled.serviceCIDR = net.serviceNetwork[i]
             /\ \A i : IsFirst(i, v6, net.serviceNetwork)
                         => filled.serviceCIDRv6 = net.serviceNetwork[i]
             /\ \A i : IsFirst(i, IPv4CIDRs, cidrs)
                         => filled.maskIPv4 = net.clusterNetwork[i].hostPrefix
             /\ \A i : IsFirst(i, v6, cidrs)
                         => filled.maskIPv6 = net.clusterNetwork[i].hostPrefix
             /\ HasNone(IPv4CIDRs, net.serviceNetwork) => filled.serviceCIDR = text.serviceCIDR
             /\ HasNone(v6, net.serviceNetwork) => filled.serviceCIDRv6 = text.serviceCIDRv6
             /\ HasNone(IPv4CIDRs, cidrs) => filled.maskIPv4 = text.maskIPv4
             /\ HasNone(v6, cidrs) => filled.maskIPv6 = text.maskIPv6
<1> DEFINE filled == fillControllerConfig(net, text)
           v6     == CIDRs \ IPv4CIDRs
           cidrs  == ClusterCIDRsOf(net)
           svc    == net.serviceNetwork
           s4 == FirstOf(IPv4CIDRs, svc)
           s6 == FirstOf(v6, svc)
           c4 == FirstOf(IPv4CIDRs, cidrs)
           c6 == FirstOf(v6, cidrs)
<1>1. svc \in Seq(CIDRs) /\ cidrs \in Seq(CIDRs)
  BY RangesTyped
<1>2. /\ filled.serviceCIDR   = IF s4 = 0 THEN text.serviceCIDR ELSE svc[s4]
      /\ filled.serviceCIDRv6 = IF s6 = 0 THEN text.serviceCIDRv6 ELSE svc[s6]
      /\ filled.maskIPv4 = IF c4 = 0 THEN text.maskIPv4 ELSE net.clusterNetwork[c4].hostPrefix
      /\ filled.maskIPv6 = IF c6 = 0 THEN text.maskIPv6 ELSE net.clusterNetwork[c6].hostPrefix
  BY DEF fillControllerConfig, ControllerTexts
<1> HIDE DEF filled, cidrs, svc
<1>3. /\ \A i : IsFirst(i, IPv4CIDRs, svc) => s4 = i /\ i # 0
      /\ \A i : IsFirst(i, v6, svc) => s6 = i /\ i # 0
      /\ \A i : IsFirst(i, IPv4CIDRs, cidrs) => c4 = i /\ i # 0
      /\ \A i : IsFirst(i, v6, cidrs) => c6 = i /\ i # 0
  BY <1>1, FirstIsUnique
<1>4. /\ (\A i \in DOMAIN svc : svc[i] \notin IPv4CIDRs) => s4 = 0
      /\ (\A i \in DOMAIN svc : svc[i] \notin v6) => s6 = 0
      /\ (\A i \in DOMAIN cidrs : cidrs[i] \notin IPv4CIDRs) => c4 = 0
      /\ (\A i \in DOMAIN cidrs : cidrs[i] \notin v6) => c6 = 0
  BY DEF FirstOf
<1> HIDE DEF s4, s6, c4, c6, v6
<1>5. /\ \A i : IsFirst(i, IPv4CIDRs, svc) => filled.serviceCIDR = svc[i]
      /\ \A i : IsFirst(i, v6, svc) => filled.serviceCIDRv6 = svc[i]
      /\ \A i : IsFirst(i, IPv4CIDRs, cidrs)
                  => filled.maskIPv4 = net.clusterNetwork[i].hostPrefix
      /\ \A i : IsFirst(i, v6, cidrs)
                  => filled.maskIPv6 = net.clusterNetwork[i].hostPrefix
  BY <1>2, <1>3
<1>6. /\ (\A i \in DOMAIN svc : svc[i] \notin IPv4CIDRs) => filled.serviceCIDR = text.serviceCIDR
      /\ (\A i \in DOMAIN svc : svc[i] \notin v6) => filled.serviceCIDRv6 = text.serviceCIDRv6
      /\ (\A i \in DOMAIN cidrs : cidrs[i] \notin IPv4CIDRs) => filled.maskIPv4 = text.maskIPv4
      /\ (\A i \in DOMAIN cidrs : cidrs[i] \notin v6) => filled.maskIPv6 = text.maskIPv6
  BY <1>2, <1>4
<1> QED
  BY <1>5, <1>6, Zenon DEF filled, svc, cidrs, v6
=============================================================================

---------------------------- MODULE EndToEndProofs ----------------------------
(***************************************************************************)
(* Theorems about the whole process that rest on what is known of each     *)
(* reconciler: the cluster holds what users wrote, and what the pod        *)
(* reconciler has been told of stays with it.                              *)
(***************************************************************************)
EXTENDS OperatorProofs, FaultFreeProofs

-----------------------------------------------------------------------------
(***************************************************************************)
(* From what users write to the cluster.  Agreement speaks of the memory   *)
(* and LatestInv of the published workloads; what is left is that memory,  *)
(* publication and cluster come from one configuration.  While applyConfig *)
(* runs that is the one it applies, and at any other time the one that is  *)
(* remembered.  A Deployment that users delete is missing, never another.  *)
(***************************************************************************)
Deployed(c) ==
  /\ objs.configMap = Rendered(c, Nil).configMap
  /\ objs.deployment \in {Nil, Rendered(c, Nil).deployment}

PublishedFrom(c) ==
  /\ published.deployment = Rendered(c, Nil).deployment
  /\ published.daemonSet.image = c.image

AppliedDeployed ==
  appliedOper # Nil /\ pc \notin {"deployment"} \cup AfterDeployment => Deployed(appliedOper)

OperDeployed ==
  /\ pc = "deployment" => objs.configMap = Rendered(oper, Nil).configMap
  /\ pc \in AfterDeployment => Deployed(oper)

PublishedKnown ==
  published # Nil =>
    IF pc \in ApplySteps \cup AfterDeployment THEN PublishedFrom(oper)
    ELSE appliedOper # Nil /\ PublishedFrom(appliedOper)

OneConfiguration == AppliedDeployed /\ OperDeployed /\ PublishedKnown

\* As long as no process has been killed, the DaemonSet has the image of that configuration
\* too.  A process that has panicked remembers none, but the workloads are still alike.
DaemonSetOf(c) == objs.daemonSet # Nil => objs.daemonSet.image = c.image

WorkloadsAlike ==
  objs.deployment # Nil /\ objs.daemonSet # Nil =>
    objs.daemonSet.image = objs.deployment.image

AfterDaemonSet == AfterDeployment \ {"daemonSet"}

DaemonSetKnown ==
  /\ pc \in AfterDaemonSet => DaemonSetOf(oper)
  /\ pc \notin AfterDaemonSet /\ appliedOper # Nil => DaemonSetOf(appliedOper)
  /\ pc \notin AfterDeployment /\ appliedOper = Nil => WorkloadsAlike

WrittenInv ==
  /\ NetworkExists
  /\ failures = 0 => OneConfiguration
  /\ failures = 0 /\ restarts = 0 => DaemonSetKnown

\* Configurations that NeedApplyChange cannot tell apart have the same objects.
LEMMA SameConfigSameCluster ==
  ASSUME NEW c, NEW d,
         c.agent = d.agent, c.cni = d.cni,
         c.controller = d.controller, c.image = d.image
  PROVE  /\ Deployed(c) <=> Deployed(d)
         /\ PublishedFrom(c) <=> PublishedFrom(d)
  BY SameConfigSameObjects DEF Deployed, PublishedFrom

\* A step that applies nothing and forgets nothing.
LEMMA WrittenStays ==
  ASSUME OneConfiguration, UNCHANGED <<objs, appliedOper, published>>,
         \/ pc' = pc /\ UNCHANGED oper
         \/ pc \notin ApplySteps \cup AfterDeployment /\ pc' \notin ApplySteps \cup AfterDeployment
         \/ pc \in AfterDeployment /\ pc' \in AfterDeployment /\ UNCHANGED oper
  PROVE  OneConfiguration'
  BY DEF OneConfiguration, AppliedDeployed, OperDeployed, PublishedKnown, Deployed,
     PublishedFrom, ApplySteps, AfterDeployment

\* applyConfig starts, or finds nothing to apply.
LEMMA WrittenCompare ==
  ASSUME TypeInv, OneConfiguration, Compare
  PROVE  OneConfiguration'
<1>1. pc = "compare" /\ UNCHANGED <<objs, memory>>
  BY DEF Compare, Accepted
<1>2. pc' = "publish" \/ (pc' = AfterApply /\ change' = NoChange)
  BY ChangeTyped DEF Compare, NoChange, NeedApplyChange
<1>3. CASE pc' = "publish"
  BY <1>1, <1>3, WrittenStays DEF memory, ApplySteps, AfterDeployment
<1>4. CASE pc' = AfterApply /\ change' = NoChange
  <2> DEFINE pre == getAppliedOperConfig
  <2>1. /\ pre # Nil
        /\ pre.agent = oper'.agent /\ pre.cni = oper'.cni
        /\ pre.controller = oper'.controller /\ pre.image = oper'.image
    <3>1. NeedApplyChange(pre, oper') = NoChange
      BY <1>4 DEF Compare
    <3> HIDE DEF pre
    <3> QED
      BY <3>1, NoChangeIsSame
  <2>2. Deployed(pre) /\ (published # Nil => PublishedFrom(pre))
    <3>1. CASE appliedOper # Nil
      BY <1>1, <3>1 DEF getAppliedOperConfig, OneConfiguration, AppliedDeployed,
         PublishedKnown, ApplySteps, AfterDeployment
    <3>2. CASE appliedOper = Nil
      <4>1. objs.configMap \in ConfigMaps /\ objs.deployment \in Deployments
              /\ pre = ReadBack(objs.configMap, objs.deployment)
        BY <2>1, <3>2 DEF getAppliedOperConfig, TypeInv, TypeOK
      <4>2. published = Nil
        BY <1>1, <3>2 DEF OneConfiguration, PublishedKnown, ApplySteps, AfterDeployment
      <4> QED
        BY <4>1, <4>2, ReadBackMatches DEF Deployed
    <3> QED
      BY <3>1, <3>2
  <2> DEFINE c == oper'
  <2>3. Deployed(c) /\ (published # Nil => PublishedFrom(c))
    <3> HIDE DEF pre, c
    <3>1. /\ pre.agent = c.agent /\ pre.cni = c.cni
          /\ pre.controller = c.controller /\ pre.image = c.image
      BY <2>1 DEF c
    <3> QED
      BY <2>2, <3>1, SameConfigSameCluster
  <2>4. pc' \in AfterDeployment /\ pc' # "deployment"
    BY <1>4 DEF AfterApply, AfterDeployment
  <2> QED
    BY <1>1, <2>3, <2>4 DEF OneConfiguration, AppliedDeployed, OperDeployed, PublishedKnown,
       Deployed, PublishedFrom, memory
<1> QED
  BY <1>2, <1>3, <1>4

\* applyConfig publishes a configuration and applies it, object by object.
LEMMA WrittenApply ==
  ASSUME TypeInv, InstallCarries, OneConfiguration, Publish \/ Apply
  PROVE  OneConfiguration'
<1>1. \A o : /\ WorkloadsOf(Rendered(oper, o)).deployment = Rendered(oper, Nil).deployment
             /\ WorkloadsOf(Rendered(oper, o)).daemonSet.image = oper.image
  BY DEF WorkloadsOf, Rendered
<1>2. CASE Publish
  <2>1. /\ pc = "publish" /\ pc' = "configMap" /\ UNCHANGED <<oper, objs, appliedOper>>
        /\ published' = WorkloadsOf(Rendered(oper, opn))
    BY <1>2 DEF Publish, local
  <2>2. PublishedFrom(oper)'
    BY <1>1, <2>1 DEF PublishedFrom
  <2> QED
    BY <2>1, <2>2 DEF OneConfiguration, AppliedDeployed, OperDeployed, PublishedKnown,
       Deployed, ApplySteps, AfterDeployment
<1>3. CASE Apply
  <2>1. /\ pc \in ApplySteps /\ UNCHANGED <<oper, opn, appliedOper, published>>
        /\ objs' = [objs EXCEPT ![pc] = Rendered(oper, opn)[pc]]
    BY <1>3 DEF Apply, AppliedObjs, local, memory
  <2>2. PublishedKnown'
    BY <1>3, <2>1 DEF Apply, OneConfiguration, PublishedKnown, PublishedFrom, ApplySteps,
       AfterDeployment
  <2>3. AppliedDeployed' /\ OperDeployed'
    BY <1>3, <2>1, RenderedAlike DEF Apply, OneConfiguration, AppliedDeployed, OperDeployed,
       Deployed, ApplySteps, AfterDeployment, TypeInv, TypeOK
  <2> QED
    BY <2>2, <2>3 DEF OneConfiguration
<1> QED
  BY <1>2, <1>3

\* Every step of the install reconciler, of users and of the process keeps cluster,
\* publication and memory together.
LEMMA WrittenStep ==
  ASSUME TypeInv, InstallCarries, NetworkExists, OneConfiguration, [Next]_vars, failures' = 0
  PROVE  OneConfiguration'
<1>1. Moves \/ Surroundings \/ Deaths \/ Works \/ NetworkGone \/ UNCHANGED vars
  BY QuietSteps
<1>2. CASE Moves
  BY <1>2, MovesLeave, WrittenStays DEF AtRest, ApplySteps, AfterDeployment
<1>3. CASE Surroundings
  BY <1>3, SurroundingsLeave, WrittenStays DEF local, memory, ApplySteps, AfterDeployment
<1>4. CASE Deaths
  BY <1>4, DeathsLeave DEF OneConfiguration, AppliedDeployed, OperDeployed, PublishedKnown,
     AfterDeployment
<1>5. CASE Works
  <2>1. CASE Compare
    BY <2>1, WrittenCompare
  <2>2. CASE Publish \/ Apply
    BY <2>2, WrittenApply
  <2>3. CASE DeleteAgentPods \/ DeleteControllerPods \/ NetworkStatusNotNeeded
             \/ UpdateNetworkStatus
    BY <2>3, WrittenStays DEF DeleteAgentPods, DeleteControllerPods, AfterApply,
       NetworkStatusNotNeeded, UpdateNetworkStatus, local, memory, ApplySteps, AfterDeployment
  <2>4. CASE Finish
    <3>1. /\ pc = "finish" /\ pc' = "idle" /\ appliedOper' = oper
          /\ UNCHANGED <<objs, published>>
      BY <2>4 DEF Finish, Return, Done
    <3>2. oper # Nil
      BY <3>1, NilAssumption DEF TypeInv, LocalsOK, Decided
    <3>3. Deployed(oper) /\ (published # Nil => PublishedFrom(oper))
      BY <3>1 DEF OneConfiguration, OperDeployed, PublishedKnown, AfterDeployment
    <3> QED
      BY <3>1, <3>2, <3>3 DEF OneConfiguration, AppliedDeployed, OperDeployed,
         PublishedKnown, Deployed, PublishedFrom, ApplySteps, AfterDeployment
  <2> QED
    BY <1>5, <2>1, <2>2, <2>3, <2>4 DEF Works
<1>6. ~ NetworkGone
  BY DEF NetworkGone, UpdateNetworkStatusFails, NetworkExists, TypeInv, LocalsOK
<1>7. CASE UNCHANGED vars
  BY <1>7, WrittenStays DEF vars, local, memory
<1> QED
  BY <1>1, <1>2, <1>3, <1>4, <1>5, <1>6, <1>7

\* So does every step of the pod reconciler, and the deletion of a workload.
LEMMA WrittenTouches ==
  ASSUME TypeInv, PodCarries, OneConfiguration, PodTouches
  PROVE  OneConfiguration'
<1>1. UNCHANGED <<pc, oper, appliedOper, published>>
  BY DEF PodTouches, Others, local
<1>2. CASE podPc = "recreate" /\ objs' = Recreated
  <2>1. /\ podReq \in WorkloadNames /\ published # Nil
        /\ podSpec = published[podReq] /\ ~ InstallHoldsSharedInfo
    BY <1>2 DEF PodCarries, PodHoldsSharedInfo
  <2>2. /\ objs'.configMap = objs.configMap
        /\ objs'.deployment \in {objs.deployment, published.deployment}
    BY <1>2, <2>1 DEF Recreated, WorkloadNames, TypeInv, TypeOK
  <2>3. pc \notin ApplySteps
    BY <2>1 DEF InstallHoldsSharedInfo
  <2>4. CASE pc \in AfterDeployment
    BY <1>1, <2>1, <2>2, <2>3, <2>4 DEF OneConfiguration, AppliedDeployed, OperDeployed,
       PublishedKnown, Deployed, PublishedFrom, AfterDeployment, ApplySteps
  <2>5. CASE pc \notin AfterDeployment
    BY <1>1, <2>1, <2>2, <2>3, <2>5 DEF OneConfiguration, AppliedDeployed, OperDeployed,
       PublishedKnown, Deployed, PublishedFrom, AfterDeployment, ApplySteps
  <2> QED
    BY <2>4, <2>5
<1>3. CASE UNCHANGED objs \/ \E w \in WorkloadNames : objs' = [objs EXCEPT ![w] = Nil]
  <2>1. /\ objs'.configMap = objs.configMap
        /\ objs'.deployment \in {Nil, objs.deployment}
    BY <1>3 DEF WorkloadNames, TypeInv, TypeOK
  <2> QED
    BY <1>1, <2>1 DEF OneConfiguration, AppliedDeployed, OperDeployed, PublishedKnown,
       Deployed, PublishedFrom
<1> QED
  BY <1>2, <1>3 DEF PodTouches

\* The DaemonSet in a step that applies nothing and forgets nothing.
LEMMA DaemonSetStays ==
  ASSUME DaemonSetKnown, UNCHANGED <<objs, appliedOper>>,
         \/ pc' = pc /\ UNCHANGED oper
         \/ pc \notin AfterDeployment /\ pc' \notin AfterDeployment
         \/ pc \in AfterDaemonSet /\ pc' \in AfterDaemonSet /\ UNCHANGED oper
  PROVE  DaemonSetKnown'
  BY DEF DaemonSetKnown, DaemonSetOf, WorkloadsAlike, AfterDaemonSet, AfterDeployment

\* A process that ends on its own has a DaemonSet like the Deployment.
LEMMA DaemonSetOutlives ==
  ASSUME OneConfiguration, DaemonSetKnown, Deaths, restarts = 0, restarts' = 0
  PROVE  DaemonSetKnown'
<1>1. /\ pc' = "down" /\ appliedOper' = Nil /\ UNCHANGED objs
      /\ pc \in {"compare", "updateNetworkStatus"}
  BY DeathsLeave
<1>2. \A c : Deployed(c) /\ DaemonSetOf(c) => WorkloadsAlike
  BY DEF Deployed, DaemonSetOf, WorkloadsAlike, Rendered
<1>3. WorkloadsAlike
  <2>1. CASE pc = "updateNetworkStatus"
    <3>1. Deployed(oper) /\ DaemonSetOf(oper)
      BY <2>1 DEF OneConfiguration, OperDeployed, DaemonSetKnown, AfterDaemonSet,
         AfterDeployment
    <3> QED
      BY <1>2, <3>1
  <2>2. CASE pc = "compare" /\ appliedOper = Nil
    BY <2>2 DEF DaemonSetKnown, AfterDeployment
  <2>3. CASE pc = "compare" /\ appliedOper # Nil
    <3>1. Deployed(appliedOper) /\ DaemonSetOf(appliedOper)
      BY <2>3 DEF OneConfiguration, AppliedDeployed, DaemonSetKnown, AfterDaemonSet,
         AfterDeployment
    <3> QED
      BY <1>2, <3>1
  <2> QED
    BY <1>1, <2>1, <2>2, <2>3
<1> QED
  BY <1>1, <1>3 DEF DaemonSetKnown, WorkloadsAlike, AfterDaemonSet, AfterDeployment

\* A reconciliation that finds nothing to apply finds a DaemonSet that needs nothing.
LEMMA DaemonSetCompare ==
  ASSUME TypeInv, DaemonSetKnown, Compare
  PROVE  DaemonSetKnown'
<1>1. pc = "compare" /\ UNCHANGED <<objs, appliedOper>>
  BY DEF Compare, Accepted, memory
<1>2. pc' = "publish" \/ (pc' = AfterApply /\ change' = NoChange)
  BY ChangeTyped DEF Compare, NoChange, NeedApplyChange
<1>3. CASE pc' = "publish"
  BY <1>1, <1>3, DaemonSetStays DEF AfterDeployment
<1>4. CASE pc' = AfterApply /\ change' = NoChange
  <2> DEFINE pre == getAppliedOperConfig
  <2>1. pre # Nil /\ pre.image = oper'.image
    <3>1. NeedApplyChange(pre, oper') = NoChange
      BY <1>4 DEF Compare
    <3> HIDE DEF pre
    <3> QED
      BY <3>1, NoChangeIsSame
  <2>2. DaemonSetOf(pre)
    <3>1. CASE appliedOper # Nil
      BY <1>1, <3>1 DEF getAppliedOperConfig, DaemonSetKnown, AfterDaemonSet, AfterDeployment
    <3>2. CASE appliedOper = Nil
      <4>1. objs.deployment # Nil /\ pre = ReadBack(objs.configMap, objs.deployment)
        BY <2>1, <3>2 DEF getAppliedOperConfig
      <4>2. pre.image = objs.deployment.image
        BY <4>1 DEF ReadBack
      <4>3. WorkloadsAlike
        BY <1>1, <3>2 DEF DaemonSetKnown, AfterDeployment
      <4> QED
        BY <4>1, <4>2, <4>3 DEF WorkloadsAlike, DaemonSetOf
    <3> QED
      BY <3>1, <3>2
  <2>3. DaemonSetOf(oper)'
    BY <1>1, <2>1, <2>2 DEF DaemonSetOf
  <2>4. pc' \in AfterDaemonSet
    BY <1>4 DEF AfterApply, AfterDaemonSet, AfterDeployment
  <2> QED
    BY <2>3, <2>4 DEF DaemonSetKnown, AfterDaemonSet
<1> QED
  BY <1>2, <1>3, <1>4

\* The DaemonSet is applied last; until then it is the one of before.
LEMMA DaemonSetApply ==
  ASSUME TypeInv, DaemonSetKnown, Apply
  PROVE  DaemonSetKnown'
<1>1. /\ pc \in ApplySteps /\ UNCHANGED <<oper, appliedOper>>
      /\ objs' = [objs EXCEPT ![pc] = Rendered(oper, opn)[pc]]
  BY DEF Apply, AppliedObjs, local, memory
<1>2. CASE pc = "configMap"
  <2>1. objs'.deployment = objs.deployment /\ objs'.daemonSet = objs.daemonSet
    BY <1>1, <1>2 DEF TypeInv, TypeOK
  <2> QED
    BY <1>1, <1>2, <2>1 DEF Apply, DaemonSetKnown, DaemonSetOf, WorkloadsAlike,
       AfterDaemonSet, AfterDeployment
<1>3. CASE pc = "deployment"
  <2>1. objs'.daemonSet = objs.daemonSet /\ pc' = "daemonSet"
    BY <1>1, <1>3 DEF Apply, TypeInv, TypeOK
  <2> QED
    BY <1>1, <1>3, <2>1 DEF DaemonSetKnown, DaemonSetOf, AfterDaemonSet, AfterDeployment
<1>4. CASE pc = "daemonSet"
  <2>1. objs'.daemonSet = Rendered(oper, opn).daemonSet /\ pc' = "deleteAgentPods"
    BY <1>1, <1>4 DEF Apply, TypeInv, TypeOK
  <2>2. objs'.daemonSet.image = oper'.image
    BY <1>1, <2>1 DEF Rendered
  <2> QED
    BY <2>1, <2>2 DEF DaemonSetKnown, DaemonSetOf, AfterDaemonSet, AfterDeployment
<1> QED
  BY <1>1, <1>2, <1>3, <1>4 DEF ApplySteps

\* Every step of the install reconciler, of users and of the process keeps the DaemonSet
\* with the configuration, unless it kills the process.
LEMMA DaemonSetStep ==
  ASSUME TypeInv, NetworkExists, OneConfiguration, DaemonSetKnown, [Next]_vars,
         failures' = 0, restarts = 0, restarts' = 0
  PROVE  DaemonSetKnown'
<1>1. Moves \/ Surroundings \/ Deaths \/ Works \/ NetworkGone \/ UNCHANGED vars
  BY QuietSteps
<1>2. CASE Moves
  BY <1>2, MovesLeave, DaemonSetStays DEF AtRest, AfterDeployment
<1>3. CASE Surroundings
  BY <1>3, SurroundingsLeave, DaemonSetStays DEF local, memory, AfterDeployment
<1>4. CASE Deaths
  BY <1>4, DaemonSetOutlives
<1>5. CASE Works
  <2>1. CASE Compare
    BY <2>1, DaemonSetCompare
  <2>2. CASE Apply
    BY <2>2, DaemonSetApply
  <2>3. CASE Publish
    BY <2>3, DaemonSetStays DEF Publish, local, AfterDeployment
  <2>4. CASE DeleteAgentPods \/ DeleteControllerPods \/ NetworkStatusNotNeeded
             \/ UpdateNetworkStatus
    BY <2>4, DaemonSetStays DEF DeleteAgentPods, DeleteControllerPods, AfterApply,
       NetworkStatusNotNeeded, UpdateNetworkStatus, local, memory, AfterDaemonSet,
       AfterDeployment
  <2>5. CASE Finish
    <3>1. pc = "finish" /\ pc' = "idle" /\ appliedOper' = oper /\ UNCHANGED objs
      BY <2>5 DEF Finish, Return, Done
    <3>2. oper # Nil
      BY <3>1, NilAssumption DEF TypeInv, LocalsOK, Decided
    <3> QED
      BY <3>1, <3>2 DEF DaemonSetKnown, DaemonSetOf, AfterDaemonSet, AfterDeployment
  <2> QED
    BY <1>5, <2>1, <2>2, <2>3, <2>4, <2>5 DEF Works
<1>6. ~ NetworkGone
  BY DEF NetworkGone, UpdateNetworkStatusFails, NetworkExists, TypeInv, LocalsOK
<1>7. CASE UNCHANGED vars
  BY <1>7, DaemonSetStays DEF vars, local, memory
<1> QED
  BY <1>1, <1>2, <1>3, <1>4, <1>5, <1>6, <1>7

\* So does every step of the pod reconciler, and the deletion of a workload.
LEMMA DaemonSetTouches ==
  ASSUME TypeInv, PodCarries, OneConfiguration, DaemonSetKnown, PodTouches
  PROVE  DaemonSetKnown'
<1>1. UNCHANGED <<pc, oper, appliedOper>>
  BY DEF PodTouches, Others, local
<1>2. CASE podPc = "recreate" /\ objs' = Recreated
  <2>1. /\ podReq \in WorkloadNames /\ published # Nil
        /\ podSpec = published[podReq] /\ pc \notin ApplySteps
    BY <1>2 DEF PodCarries, PodHoldsSharedInfo, InstallHoldsSharedInfo
  <2>2. /\ objs'.daemonSet \in {objs.daemonSet, published.daemonSet}
        /\ objs'.deployment \in {objs.deployment, published.deployment}
    BY <1>2, <2>1 DEF Recreated, WorkloadNames, TypeInv, TypeOK
  <2>3. CASE pc \in AfterDaemonSet
    <3>1. PublishedFrom(oper)
      BY <2>1, <2>3 DEF OneConfiguration, PublishedKnown, AfterDaemonSet
    <3> QED
      BY <1>1, <2>2, <2>3, <3>1 DEF DaemonSetKnown, DaemonSetOf, PublishedFrom, AfterDaemonSet
  <2>4. CASE pc \notin AfterDaemonSet
    <3>1. pc \notin ApplySteps \cup AfterDeployment
      BY <2>1, <2>4 DEF AfterDaemonSet, ApplySteps
    <3>2. appliedOper # Nil /\ PublishedFrom(appliedOper)
      BY <2>1, <3>1 DEF OneConfiguration, PublishedKnown
    <3> QED
      BY <1>1, <2>2, <2>4, <3>2 DEF DaemonSetKnown, DaemonSetOf, PublishedFrom
  <2> QED
    BY <2>3, <2>4
<1>3. CASE UNCHANGED objs \/ \E w \in WorkloadNames : objs' = [objs EXCEPT ![w] = Nil]
  <2>1. /\ objs'.daemonSet \in {Nil, objs.daemonSet}
        /\ objs'.deployment \in {Nil, objs.deployment}
    BY <1>3 DEF WorkloadNames, TypeInv, TypeOK
  <2> QED
    BY <1>1, <2>1 DEF DaemonSetKnown, DaemonSetOf, WorkloadsAlike
<1> QED
  BY <1>2, <1>3 DEF PodTouches

\* A process that was killed stays counted.
LEMMA RestartsGrow ==
  ASSUME TypeInv, [Next]_vars, failures' = 0, restarts' = 0
  PROVE  restarts = 0
<1>1. restarts \in Nat
  BY InstallAssumption DEF TypeInv, TypeOK
<1>2. Moves \/ Surroundings \/ Deaths \/ Works \/ NetworkGone \/ UNCHANGED vars
  BY QuietSteps
<1>3. CASE Moves \/ Surroundings
  BY <1>3, MovesLeave, SurroundingsLeave DEF bounds
<1>4. CASE Deaths
  BY <1>1, <1>4, DeathsLeave
<1>5. CASE Works \/ NetworkGone \/ UNCHANGED vars
  BY <1>5 DEF Works, Compare, Publish, Apply, DeleteAgentPods, DeleteControllerPods,
     NetworkStatusNotNeeded, UpdateNetworkStatus, Finish, NetworkGone,
     UpdateNetworkStatusFails, vars, bounds
<1> QED
  BY <1>2, <1>3, <1>4, <1>5

\* Every step of the process does.
LEMMA WrittenNext ==
  ASSUME Nil \notin NetworkEdits
  PROVE  OperatorInv /\ WrittenInv /\ [OperatorNext]_operatorVars => WrittenInv'
<1> SUFFICES ASSUME OperatorInv, WrittenInv, [OperatorNext]_operatorVars PROVE WrittenInv'
  OBVIOUS
<1>0. /\ TypeInv /\ PodCarries /\ InstallCarries /\ NetworkExists
      /\ failures \in Nat
  BY InstallAssumption DEF OperatorInv, WrittenInv, TypeInv, TypeOK
<1>1. CASE [Next]_vars
  <2>1. NetworkExists'
    BY <1>0, <1>1, NetworkStays
  <2>2. ASSUME failures' = 0 PROVE failures = 0 /\ OneConfiguration /\ OneConfiguration'
    BY <1>0, <1>1, <2>2, QuietSteps, WrittenStep DEF WrittenInv
  <2>3. ASSUME failures' = 0, restarts' = 0 PROVE DaemonSetKnown'
    <3>1. restarts = 0
      BY <1>0, <1>1, <2>3, RestartsGrow
    <3>2. failures = 0 /\ OneConfiguration
      BY <2>2, <2>3
    <3>3. DaemonSetKnown
      BY <3>1, <3>2 DEF WrittenInv
    <3> QED
      BY <1>0, <1>1, <2>3, <3>1, <3>2, <3>3, DaemonSetStep
  <2> QED
    BY <2>1, <2>2, <2>3 DEF WrittenInv
<1>2. CASE PodTouches
  <2>1. NetworkExists' /\ (failures' = 0 => failures = 0) /\ restarts' = restarts
    BY <1>0, <1>2 DEF PodTouches, Others, users, NetworkExists
  <2>2. ASSUME failures' = 0 PROVE OneConfiguration'
    BY <1>0, <1>2, <2>1, <2>2, WrittenTouches DEF WrittenInv
  <2>3. ASSUME failures' = 0, restarts' = 0 PROVE DaemonSetKnown'
    BY <1>0, <1>2, <2>1, <2>3, DaemonSetTouches DEF WrittenInv
  <2> QED
    BY <2>1, <2>2, <2>3 DEF WrittenInv
<1> QED
  BY <1>1, <1>2, StepKinds

\* At rest, the one configuration is the one users wrote.
LEMMA WrittenHolds ==
  ASSUME AgreementInv, OperatorInv, PodTypeOK, LatestInv, WrittenInv
  PROVE  ClusterIsAsWritten
<1> SUFFICES ASSUME failures = 0, SettledClean, PodSettled, DesiredExists
             PROVE  \E s \in {cr, FillConfigs(net, cr)} :
                      /\ objs.configMap = Rendered(s, opNet).configMap
                      /\ objs.deployment # Nil => objs.deployment = Rendered(s, opNet).deployment
                      /\ objs.daemonSet # Nil /\ (published # Nil \/ restarts = 0) =>
                           objs.daemonSet.image = s.image
                      /\ published # Nil => objs.deployment # Nil /\ objs.daemonSet # Nil
  BY DEF ClusterIsAsWritten
<1>1. appliedOper # Nil /\ appliedOper \in {cr, FillConfigs(net, cr)}
  BY AgreementHolds DEF QuiescentAgreement, Agreed
<1>2. pc = "idle"
  BY DEF SettledClean, Settled
<1>3. Deployed(appliedOper) /\ (published # Nil => PublishedFrom(appliedOper))
  BY <1>1, <1>2 DEF WrittenInv, OneConfiguration, AppliedDeployed, PublishedKnown,
     ApplySteps, AfterDeployment
<1>4. /\ objs.configMap = Rendered(appliedOper, opNet).configMap
      /\ objs.deployment # Nil => objs.deployment = Rendered(appliedOper, opNet).deployment
  BY <1>3, RenderedAlike DEF Deployed
<1>5. ASSUME published # Nil
      PROVE  /\ objs.deployment # Nil
             /\ objs.daemonSet # Nil /\ objs.daemonSet.image = appliedOper.image
  <2>1. WorkloadObjs = [w \in WorkloadNames |-> published[w]]
    BY <1>5, LatestHolds DEF WorkloadsAreLatest
  <2>2. objs.deployment = published.deployment /\ objs.daemonSet = published.daemonSet
    BY <2>1 DEF WorkloadObjs, WorkloadNames
  <2>3. published.deployment \in Deployments /\ published.daemonSet \in DaemonSets
    BY <1>5, PublishedTyped DEF OperatorInv, TypeInv, TypeOK
  <2> QED
    BY <1>3, <1>5, <2>2, <2>3, NilAssumption DEF PublishedFrom
<1>6. ASSUME objs.daemonSet # Nil, restarts = 0
      PROVE  objs.daemonSet.image = appliedOper.image
  BY <1>1, <1>2, <1>6 DEF WrittenInv, DaemonSetKnown, DaemonSetOf, AfterDaemonSet,
     AfterDeployment
<1> QED
  BY <1>1, <1>4, <1>5, <1>6

\* antreainstall_controller.go:95-145, pod_controller.go:80-119: as long as no call fails
\* and no Network is deleted, the two reconcilers at rest leave a cluster that is what
\* users wrote, whatever they edited or deleted: the ConfigMap and the Deployment wherever
\* the process was killed, the DaemonSet unless a process that was started after a kill
\* has found nothing to apply.
THEOREM EndToEnd ==
  ASSUME Nil \notin NetworkEdits
  PROVE  OperatorSpec => []ClusterIsAsWritten
<1>1. OperatorInit => AgreementInv /\ WrittenInv
  <2> SUFFICES ASSUME OperatorInit PROVE AgreementInv /\ WrittenInv
    OBVIOUS
  <2>1. AgreementInv
    BY AgreementInit DEF OperatorInit
  <2>2. NetworkExists
    BY CrashInit DEF OperatorInit, CrashInv
  <2>3. OneConfiguration
    BY DEF OperatorInit, Init, OneConfiguration, AppliedDeployed, OperDeployed,
       PublishedKnown, AfterDeployment
  <2>4. DaemonSetKnown
    BY DEF OperatorInit, Init, DaemonSetKnown, WorkloadsAlike, AfterDaemonSet,
       AfterDeployment, ObjectNames
  <2> QED
    BY <2>1, <2>2, <2>3, <2>4 DEF WrittenInv
<1>2. AgreementInv /\ OperatorInv /\ PodTypeOK /\ LatestInv /\ WrittenInv => ClusterIsAsWritten
  BY WrittenHolds
<1>3. OperatorInv /\ WrittenInv /\ [OperatorNext]_operatorVars => WrittenInv'
  BY WrittenNext
<1> QED
  BY <1>1, <1>2, <1>3, OperatorInvInit, OperatorStep, PodTypeInit, PodTypeStep, LatestInit,
     LatestStep, OperatorAgreementStep, PTL DEF OperatorSpec

-----------------------------------------------------------------------------
(***************************************************************************)
(* The chain of reconciliations of a workload.  The first process learns   *)
(* of a workload when it creates it, which is after the publication that   *)
(* makes the pod reconciler care.                                          *)
(***************************************************************************)
ResyncInv ==
  restarts = 0 =>
    /\ pc = "down" \/ published = Nil => \A w \in WorkloadNames : objs[w] = Nil
    /\ \A w \in WorkloadNames : objs[w] # Nil => Followed(w)

\* A process that has not been killed and does not panic lives on.
LEMMA LivesOn ==
  ASSUME NeverPanics, TypeInv, [Next]_vars, restarts' = 0
  PROVE  /\ restarts = 0
         /\ pc' = "down" => pc = "down"
<1>0. restarts \in Nat
  BY InstallAssumption DEF TypeInv, TypeOK
<1>1. ~ Crash
  BY <1>0 DEF Crash
<1>2. ~ FillConfigsPanics /\ ~ HasDefaultMTUChangePanics
  BY DEF NeverPanics, FillConfigsPanics, HasDefaultMTUChangePanics, TypeInv, LocalsOK, Decided
<1>3. CASE Users \/ (\E k \in Keys : SpuriousEvent(k)) \/ StartAgentPods
           \/ StartControllerPods
  BY <1>3 DEF Users, WriteInstall, WriteNetwork, WriteOperatorNetwork, SpuriousEvent,
     StartAgentPods, StartControllerPods, bounds
<1>4. CASE \/ StartOperator \/ (\E k \in Keys : Ignore(k))
           \/ (\E k \in WatchedKeys : Dequeue(k))
  BY <1>4 DEF StartOperator, Ignore, Dequeue, bounds
<1>5. CASE Reporting
  <2>1. UNCHANGED restarts
    BY <1>5 DEF Reporting, GetNetworkFails, NetworkNotFound, OperatorNetworkNotFound,
       GetInstallFails, InstallNotFound, RejectConfig, GetAppliedConfigFails, Publish,
       PublishFails, ApplyFails, DeleteAgentPodsFails, DeleteControllerPodsFails,
       UpdateNetworkStatusFails, Finish, Fault, bounds
  <2>2. pc' = "configMap" \/ Return \/ ReturnError
    BY <1>5 DEF Reporting, GetNetworkFails, NetworkNotFound, OperatorNetworkNotFound,
       GetInstallFails, InstallNotFound, RejectConfig, GetAppliedConfigFails, Publish,
       PublishFails, ApplyFails, DeleteAgentPodsFails, DeleteControllerPodsFails,
       UpdateNetworkStatusFails, Finish
  <2> QED
    BY <2>1, <2>2 DEF Return, ReturnError, Done
<1>6. CASE Silent
  BY <1>2, <1>6 DEF Silent, NetworkUnchanged, GetNetwork, GetOperatorNetworkFails,
     GetOperatorNetwork, InstallUnchanged, GetInstall, Compare, AfterApply, Apply,
     ApplySteps, DeleteAgentPods, DeleteControllerPods, NetworkStatusNotNeeded,
     UpdateNetworkStatus, Return, ReturnError, Done, Fault, bounds
<1>7. CASE UNCHANGED vars
  BY <1>7 DEF vars, bounds
<1> QED
  BY <1>1, <1>3, <1>4, <1>5, <1>6, <1>7 DEF Next, Environment, Reconcile

\* A step of the install reconciler, of users or of the process tells the pod
\* reconciler of the workloads it creates.
LEMMA ResyncFollows ==
  ASSUME NeverPanics, OperatorInv, ResyncInv, [Next]_vars, restarts' = 0,
         PodFollows \/ StartWorkers
  PROVE  ResyncInv'
<1>1. restarts = 0 /\ (pc' = "down" => pc = "down")
  BY LivesOn DEF OperatorInv
<1>2. CASE \A w \in WorkloadNames : objs[w] = Nil /\ objs'[w] = Nil
  BY <1>2 DEF ResyncInv
<1>3. CASE StartWorkers
  BY <1>1, <1>2, <1>3 DEF StartWorkers, StartOperator, ResyncInv
<1>4. CASE pc' = "down"
  <2>1. UNCHANGED objs
    BY <1>1, <1>4, InstallEffects DEF OperatorInv, Publish, ApplySteps
  <2> QED
    BY <1>1, <1>2, <1>4, <2>1 DEF ResyncInv
<1>5. CASE pc' # "down" /\ PodFollows
  <2>1. podQueue' = podQueue \cup Events /\ UNCHANGED <<podTimers, podReq>>
    BY <1>5 DEF PodFollows
  <2>2. \A w \in WorkloadNames : objs'[w] # Nil => Followed(w)'
    BY <1>1, <2>1 DEF Events, Followed, ResyncInv
  <2>3. ASSUME published' = Nil PROVE \A w \in WorkloadNames : objs'[w] = Nil
    <3>1. published = Nil
      BY <1>5, <2>3, InstallEffects, DownForgets, RenderedTyped, NilAssumption
      DEF OperatorInv, Publish, TypeInv, LocalsOK, Decided
    <3>2. pc \notin ApplySteps
      BY <3>1, RenderedTyped, NilAssumption DEF OperatorInv, InstallCarries,
         InstallHoldsSharedInfo, TypeInv, LocalsOK, Decided
    <3>3. UNCHANGED objs
      BY <1>5, <3>2, InstallEffects DEF OperatorInv, Publish
    <3> QED
      BY <1>1, <3>1, <3>3 DEF ResyncInv
  <2> QED
    BY <1>5, <2>2, <2>3 DEF ResyncInv
<1> QED
  BY <1>3, <1>4, <1>5

\* Every step keeps the chain.
LEMMA ResyncStep ==
  ASSUME NeverPanics
  PROVE  /\ OperatorInv /\ PodTypeOK /\ LatestInv /\ ResyncInv
         /\ [OperatorNext]_operatorVars
         => ResyncInv'
<1> SUFFICES ASSUME OperatorInv, PodTypeOK, LatestInv, ResyncInv,
                    [OperatorNext]_operatorVars, restarts' = 0
             PROVE  ResyncInv'
  BY DEF ResyncInv
<1>0. objs \in [configMap  : ConfigMaps \cup {Nil},
               deployment : Deployments \cup {Nil},
               daemonSet  : DaemonSets \cup {Nil}]
  BY DEF OperatorInv, TypeInv, TypeOK
<1>1. CASE \/ UserStep \/ CrashWorkers \/ StartWorkers
           \/ (\E k \in WatchedKeys : InstallDequeue(k))
           \/ InstallSilent \/ InstallReports
  <2>1. [Next]_vars /\ (PodFollows \/ StartWorkers)
    BY <1>1 DEF UserStep, CrashWorkers, StartWorkers, InstallDequeue, InstallSilent,
       InstallReports, Next, Environment, Reconcile
  <2> QED
    BY <2>1, ResyncFollows
<1>2. CASE \E w \in WorkloadNames : DeleteWorkload(w)
  <2>1. PICK w \in WorkloadNames : DeleteWorkload(w)
    BY <1>2
  <2>2. /\ UNCHANGED <<pc, published, restarts>> /\ objs[w] # Nil
        /\ objs' = [objs EXCEPT ![w] = Nil] /\ PodFollows
    BY <2>1 DEF DeleteWorkload, memory, bounds
  <2>3. \A v \in WorkloadNames : objs'[v] # Nil => objs[v] # Nil
    BY <1>0, <2>2 DEF WorkloadNames
  <2> QED
    BY <2>2, <2>3 DEF PodFollows, ResyncInv, Followed
<1> USE DEF ResyncInv, Followed
<1>3. CASE \E w \in WorkloadNames : PodEvent(w) \/ PodTimer(w)
  BY <1>3 DEF PodEvent, PodTimer, vars, memory, bounds
<1>4. CASE \E w \in WorkloadNames : PodIgnore(w)
  BY <1>4 DEF PodIgnore, PodTake, vars, memory, bounds
<1>5. CASE \E w \in WorkloadNames : PodDequeue(w)
  BY <1>5, WorkloadAssumption DEF PodDequeue, PodTake, PodTypeOK, WorkloadNames, vars, memory, bounds
<1>6. CASE PodReported \/ PodLock \/ PodGetNotFound
  BY <1>6 DEF PodReported, PodLock, PodGetNotFound, vars, memory, bounds
<1>7. CASE PodGetFound \/ PodGetFails
  BY <1>7 DEF PodGetFound, PodGetFails, PodReturn, PodReturnError, PodDone, Others, vars,
     memory, bounds
<1>8. CASE PodRecreate \/ PodRecreateFails
  <2>1. /\ podReq \in WorkloadNames /\ published # Nil /\ pc # "down"
        /\ UNCHANGED <<pc, published, restarts>>
        /\ podReq \in podTimers' \cup podQueue'
        /\ podTimers \subseteq podTimers' /\ podQueue \subseteq podQueue'
        /\ objs' \in {objs, Recreated}
    BY <1>8 DEF PodRecreate, PodRecreateFails, PodReturn, PodReturnError, Others,
       OperatorInv, PodCarries, PodHoldsSharedInfo, LatestInv
  <2>2. \A v \in WorkloadNames : v # podReq => objs'[v] = objs[v]
    BY <1>0, <2>1 DEF Recreated, WorkloadNames
  <2> QED
    BY <2>1, <2>2
<1>9. CASE UNCHANGED operatorVars
  BY <1>9 DEF operatorVars, podVars, vars, memory, bounds
<1> QED
  BY <1>1, <1>2, <1>3, <1>4, <1>5, <1>6, <1>7, <1>8, <1>9
  DEF OperatorNext, Workers, PodReconcile

\* In the first process no chain of reconciliations breaks: an event, a timer or the
\* request that is served stands for every workload that exists.
THEOREM ResyncKept ==
  ASSUME NeverPanics
  PROVE  OperatorSpec => []ResyncIsKept
<1>1. OperatorInit => ResyncInv
  BY DEF OperatorInit, Init, ResyncInv, WorkloadNames, ObjectNames
<1>2. ResyncInv => ResyncIsKept
  BY DEF ResyncInv, ResyncIsKept
<1>3. /\ OperatorInv /\ PodTypeOK /\ LatestInv /\ ResyncInv
      /\ [OperatorNext]_operatorVars
      => ResyncInv'
  BY ResyncStep
<1> QED
  BY <1>1, <1>2, <1>3, OperatorInvInit, OperatorStep, PodTypeInit, PodTypeStep, LatestInit,
     LatestStep, PTL DEF OperatorSpec

-----------------------------------------------------------------------------
(***************************************************************************)
(* A deleted workload.                                                     *)
(***************************************************************************)
Kept(w) == objs'[w] # Nil \/ w \in podQueue' \cup {podReq'} \/ pc' = "down"

\* No step forgets a published workload that is missing: a request for it ends by
\* recreating it or by an error, which queues it again.
LEMMA DeletionStep ==
  ASSUME OperatorInv, PodTypeOK, LatestInv, [OperatorNext]_operatorVars,
         NEW w \in WorkloadNames, published # Nil, objs[w] = Nil,
         w \in podQueue \cup {podReq}
  PROVE  Kept(w)
<1>0. /\ pc # "down"
      /\ objs \in [configMap  : ConfigMaps \cup {Nil},
                   deployment : Deployments \cup {Nil},
                   daemonSet  : DaemonSets \cup {Nil}]
  BY DEF LatestInv, OperatorInv, TypeInv, TypeOK
<1> USE DEF Kept
<1>1. CASE \/ UserStep \/ CrashWorkers
           \/ (\E k \in WatchedKeys : InstallDequeue(k))
           \/ InstallSilent \/ InstallReports
           \/ (\E v \in WorkloadNames : DeleteWorkload(v))
  <2>1. PodFollows
    BY <1>1 DEF UserStep, CrashWorkers, InstallDequeue, InstallSilent, InstallReports,
       DeleteWorkload
  <2> QED
    BY <2>1 DEF PodFollows
<1>2. ~ StartWorkers
  BY <1>0 DEF StartWorkers, StartOperator
<1>3. CASE \E v \in WorkloadNames : PodEvent(v) \/ PodTimer(v)
  BY <1>3 DEF PodEvent, PodTimer
<1>4. CASE \E v \in WorkloadNames : PodIgnore(v) \/ PodDequeue(v)
  <2>1. PICK v \in WorkloadNames : PodDequeue(v)
    BY <1>4 DEF PodIgnore
  <2> QED
    BY <2>1, WorkloadAssumption DEF PodDequeue, PodTake, PodTypeOK, WorkloadNames
<1>5. CASE PodReported \/ PodLock \/ PodGetNotFound
  BY <1>5 DEF PodReported, PodLock, PodGetNotFound
<1>6. CASE PodGetFound
  BY <1>6 DEF PodGetFound, PodReturn
<1>7. CASE PodGetFails \/ PodRecreateFails
  BY <1>7 DEF PodGetFails, PodRecreateFails, PodReturnError
<1>8. CASE PodRecreate
  <2>1. podReq = w => objs'[w] # Nil
    BY <1>0, <1>8 DEF PodRecreate, Recreated, PodTypeOK, WorkloadNames
  <2> QED
    BY <1>8, <2>1 DEF PodRecreate, PodReturn
<1>9. CASE UNCHANGED operatorVars
  BY <1>9 DEF operatorVars, podVars
<1> QED
  BY <1>1, <1>2, <1>3, <1>4, <1>5, <1>6, <1>7, <1>8, <1>9
  DEF OperatorNext, Workers, PodReconcile

\* A published workload that users delete stays with the pod reconciler until it exists
\* again or the process ends, whatever calls fail on the way.
THEOREM DeletionsKept == OperatorSpec => DeletionIsKept
<1>1. OperatorInv /\ PodTypeOK /\ LatestInv /\ [OperatorNext]_operatorVars =>
        [ \A w \in WorkloadNames :
            published # Nil /\ objs[w] = Nil /\ w \in podQueue \cup {podReq} =>
              objs'[w] # Nil \/ w \in podQueue' \cup {podReq'} \/ pc' = "down"
        ]_operatorVars
  BY DeletionStep DEF Kept
<1> QED
  BY <1>1, OperatorInvInit, OperatorStep, PodTypeInit, PodTypeStep, LatestInit, LatestStep,
     PTL DEF OperatorSpec, DeletionIsKept
=============================================================================

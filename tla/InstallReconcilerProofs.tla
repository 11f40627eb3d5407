---------------------- MODULE InstallReconcilerProofs ----------------------
(***************************************************************************)
(* Theorems about InstallReconciler, for every platform, every finite or   *)
(* infinite set of configurations and networks, and every bound.           *)
(***************************************************************************)
EXTENDS InstallReconciler, TLAPS

-----------------------------------------------------------------------------
(***************************************************************************)
(* Facts about the operators of OperatorConfig.                            *)
(***************************************************************************)

\* On Kubernetes and on OpenShift, the filling makes what the validation
\* requires: a text that can be completed is never rejected afterwards.
LEMMA FilledIsValid ==
  ASSUME NEW n \in NetworkSpecs \cup {Nil}, NEW s \in OperSpecs,
         Fillable(n, s), ~ FillPanics(n, s)
  PROVE  ValidateConfig(n, FillConfigs(n, s))
<1> DEFINE f == FillConfigs(n, s)
<1>1. s.agent \in AgentTexts /\ s.image \in Images \cup {NoImage}
  BY DEF OperSpecs
<1>2. f.image # NoImage
  BY <1>1, ConfigAssumption DEF FillConfigs, OperSpecs
<1>3. f.agent = fillAgentConfig(n, s.agent)
  BY DEF FillConfigs, OperSpecs
<1>4. f.agent.parses
  BY <1>1, <1>3 DEF Fillable, AgentFillable, fillAgentConfig, AgentTexts
<1>5. CASE n = Nil
  <2>1. f.agent.serviceCIDR = s.agent.serviceCIDR
    BY <1>1, <1>3, <1>5 DEF fillAgentConfig, AgentTexts
  <2> QED
    BY <1>2, <1>4, <1>5, <2>1 DEF ValidateConfig, Fillable, AgentFillable
<1>6. CASE n # Nil
  <2>1. n.serviceNetwork \in Seq(CIDRs)
    BY <1>6 DEF NetworkSpecs
  <2>2. n.serviceNetwork # << >>
    BY <1>6 DEF FillPanics, Fillable, AgentFillable
  <2>3. 1 \in DOMAIN n.serviceNetwork
    BY <2>1, <2>2
  <2>4. inSlice(f.agent.serviceCIDR, n.serviceNetwork)
    BY <1>1, <1>3, <1>6, <2>3 DEF fillAgentConfig, AgentTexts, inSlice
  <2> QED
    BY <1>2, <1>4, <1>6, <2>4 DEF ValidateConfig
<1> QED
  BY <1>5, <1>6

\* Every value the worker derives is in the image its type names.
LEMMA FilledTyped ==
  ASSUME NEW n \in ClusterNets, NEW s \in RawSpecs,
         ~ FillPanics(n, s), Accepts(n, s)
  PROVE  FillConfigs(n, s) \in FilledSpecs
<1>1. <<n, s>> \in Inputs
  BY DEF Inputs
<1> QED
  BY <1>1 DEF FilledSpecs

\* What generateRenderData and the manifest produce is typed.
LEMMA RenderedTyped ==
  ASSUME NEW c \in FilledSpecs, NEW o \in OperNets
  PROVE  /\ Rendered(c, o).configMap \in ConfigMaps
         /\ Rendered(c, o).deployment \in Deployments
         /\ Rendered(c, o).daemonSet \in DaemonSets
         /\ WorkloadsOf(Rendered(c, o)) \in Workloads
<1>1. Rendered(c, o) \in Objects
  BY DEF Objects
<1> QED
  BY <1>1 DEF ConfigMaps, Deployments, DaemonSets, Workloads

\* Pods that start from typed objects are typed.
LEMMA PodsTyped ==
  ASSUME NEW m \in ConfigMaps
  PROVE  /\ \A d \in DaemonSets : AgentPodsOf(m, d) \in AgentPods
         /\ \A w \in Deployments : ControllerPodsOf(m, w) \in ControllerPods
  BY DEF AgentPods, ControllerPods

\* BuildNetworkStatus produces a typed status.
LEMMA NetworkStatusTyped ==
  ASSUME NEW n \in NetworkEdits \ {Nil}, NEW c \in FilledSpecs
  PROVE  BuildNetworkStatus(n, c.agent.defaultMTU) \in NetworkStatuses
  BY DEF NetworkStatuses

\* NeedApplyChange answers in Booleans.
LEMMA ChangeTyped ==
  ASSUME NEW p, NEW c
  PROVE  NeedApplyChange(p, c) \in
           [agent : BOOLEAN, controller : BOOLEAN, image : BOOLEAN]
  BY DEF NeedApplyChange

-----------------------------------------------------------------------------
(***************************************************************************)
(* Type correctness.  What the worker has read so far depends on where it  *)
(* is, which TypeOK alone does not say.                                    *)
(***************************************************************************)
Decided == {"publish", "deleteAgentPods", "deleteControllerPods",
            "updateNetworkStatus", "finish"} \cup ApplySteps

LocalsOK ==
  /\ pc \in {"down", "idle"} <=> req = Nil
  /\ pc \in {"getNetwork", "getOperatorNetwork", "updateNetworkStatus"} => Openshift
  /\ pc \in {"getOperatorNetwork", "getInstall", "compare"} \cup Decided =>
       clus \in ClusterNets
  /\ pc \in {"getInstall", "compare"} \cup Decided => opn \in OperNets
  /\ pc = "compare" => oper \in RawSpecs
  /\ pc \in Decided => oper \in FilledSpecs

TypeInv == TypeOK /\ LocalsOK

\* The first state is typed, and so is what the worker carries.
LEMMA TypeInit == Init => TypeInv
<1> SUFFICES ASSUME Init PROVE TypeInv
  OBVIOUS
<1>1. TypeOK
  BY InstallAssumption DEF Init, TypeOK, ObjectNames, Steps, ClusterNets, OperNets,
     NoChange, ApplySteps
<1>2. LocalsOK
  BY DEF Init, LocalsOK, Decided, ApplySteps
<1> QED
  BY <1>1, <1>2 DEF TypeInv

\* Every action keeps the types, and what the worker carries.
LEMMA TypeStep == TypeInv /\ [Next]_vars => TypeInv'
<1> SUFFICES ASSUME TypeInv, [Next]_vars PROVE TypeInv'
  OBVIOUS
<1> USE InstallAssumption
<1> USE DEF TypeInv, TypeOK, LocalsOK, vars, users, pods, local, memory,
   bounds, Decided, ApplySteps, Steps
<1>1. CASE \E s \in InstallEdits : WriteInstall(s)
  BY <1>1 DEF WriteInstall, Notify, RawSpecs, Keys, WatchedKeys
<1>2. CASE \E n \in NetworkEdits : WriteNetwork(n)
  BY <1>2 DEF WriteNetwork, Notify, Keys, WatchedKeys, Openshift
<1>3. CASE \E o \in OperatorNetworkEdits : WriteOperatorNetwork(o)
  BY <1>3 DEF WriteOperatorNetwork
<1>4. CASE \E k \in Keys : SpuriousEvent(k)
  BY <1>4 DEF SpuriousEvent
<1>5. CASE StartAgentPods
  BY <1>5, PodsTyped DEF StartAgentPods
<1>6. CASE StartControllerPods
  BY <1>6, PodsTyped DEF StartControllerPods
<1>7. CASE Crash
  BY <1>7 DEF Crash, Die, Wiped, NoChange
<1>8. CASE StartOperator
  BY <1>8 DEF StartOperator, Keys, WatchedKeys, Openshift, ClusterNets
<1>9. CASE \E k \in Keys : Ignore(k)
  BY <1>9 DEF Ignore
<1>10. CASE \E k \in WatchedKeys : Dequeue(k)
  BY <1>10 DEF Dequeue, ClusterNets, OperNets, WatchedKeys, Openshift
<1>11. CASE GetNetworkFails
  BY <1>11 DEF GetNetworkFails, Fault, SetDegraded, Keys, ReturnError, Done,
     NoChange
<1>12. CASE NetworkNotFound
  BY <1>12 DEF NetworkNotFound, SetDegraded, Return, Done, NoChange
<1>13. CASE NetworkUnchanged
  BY <1>13 DEF NetworkUnchanged, Return, Done, NoChange
<1>14. CASE GetNetwork
  BY <1>14 DEF GetNetwork, ClusterNets, Openshift
<1>15. CASE GetOperatorNetworkFails
  BY <1>15 DEF GetOperatorNetworkFails, Fault, Keys, ReturnError, Done,
     NoChange
<1>16. CASE OperatorNetworkNotFound
  BY <1>16 DEF OperatorNetworkNotFound, SetDegraded, Return, Done, NoChange
<1>17. CASE GetOperatorNetwork
  BY <1>17 DEF GetOperatorNetwork, OperNets, Openshift
<1>18. CASE GetInstallFails
  BY <1>18 DEF GetInstallFails, Fault, SetDegraded, Keys, ReturnError, Done,
     NoChange
<1>19. CASE InstallNotFound
  BY <1>19 DEF InstallNotFound, SetDegraded, Return, Done, NoChange
<1>20. CASE InstallUnchanged
  BY <1>20 DEF InstallUnchanged, Return, Done, NoChange
<1>21. CASE GetInstall
  BY <1>21 DEF GetInstall
<1>22. CASE FillConfigsPanics
  BY <1>22 DEF FillConfigsPanics, Die, Wiped, NoChange
<1>23. CASE RejectConfig
  BY <1>23 DEF RejectConfig, SetDegraded, Keys, ReturnError, Done, NoChange
<1>24. CASE GetAppliedConfigFails
  BY <1>24 DEF GetAppliedConfigFails, Accepted, Fault, SetDegraded, Keys,
     ReturnError, Done, NoChange
<1>25. CASE Compare
  BY <1>25, FilledTyped, ChangeTyped DEF Compare, Accepted, AfterApply,
     Openshift
<1>26. CASE Publish
  BY <1>26, RenderedTyped DEF Publish
<1>27. CASE Apply
  BY <1>27, RenderedTyped DEF Apply, AppliedObjs
<1>28. CASE ApplyFails
  BY <1>28, RenderedTyped DEF ApplyFails, AppliedObjs, Fault, SetDegraded,
     Keys, ReturnError, Done, NoChange
<1>29. CASE DeleteAgentPods
  BY <1>29 DEF DeleteAgentPods
<1>30. CASE DeleteAgentPodsFails
  BY <1>30 DEF DeleteAgentPodsFails, Fault, SetDegraded, Keys, ReturnError,
     Done, NoChange
<1>31. CASE DeleteControllerPods
  BY <1>31 DEF DeleteControllerPods, AfterApply, Openshift
<1>32. CASE DeleteControllerPodsFails
  BY <1>32 DEF DeleteControllerPodsFails, Fault, SetDegraded, Keys,
     ReturnError, Done, NoChange
<1>33. CASE HasDefaultMTUChangePanics
  BY <1>33 DEF HasDefaultMTUChangePanics, Die, Wiped, NoChange
<1>34. CASE NetworkStatusNotNeeded
  BY <1>34 DEF NetworkStatusNotNeeded
<1>35. CASE UpdateNetworkStatus
  BY <1>35, NetworkStatusTyped DEF UpdateNetworkStatus, ClusterNets, Keys,
     WatchedKeys, Openshift
<1>36. CASE UpdateNetworkStatusFails
  BY <1>36, NetworkStatusTyped DEF UpdateNetworkStatusFails, ClusterNets,
     Openshift, Fault, SetDegraded, Keys, ReturnError, Done, NoChange
<1>37. CASE Finish
  BY <1>37 DEF Finish, Return, Done, NoChange
<1>38. CASE UNCHANGED vars
  BY <1>38
<1>39. CASE PublishFails
  BY <1>39 DEF PublishFails, Fault, SetDegraded, Keys, ReturnError, Done, NoChange
<1> QED
  BY <1>1, <1>2, <1>3, <1>4, <1>5, <1>6, <1>7, <1>8, <1>9, <1>10, <1>11,
     <1>12, <1>13, <1>14, <1>15, <1>16, <1>17, <1>18, <1>19, <1>20, <1>21,
     <1>22, <1>23, <1>24, <1>25, <1>26, <1>27, <1>28, <1>29, <1>30, <1>31,
     <1>32, <1>33, <1>34, <1>35, <1>36, <1>37, <1>38, <1>39 DEF Next, Environment,
     Users, Reconcile, Reporting, Silent

\* The variables always have their types: no step of the worker keeps a value
\* that fillConfig, the rendering or the reads cannot produce.
THEOREM TypeCorrect == Spec => []TypeOK
<1>1. TypeInv => TypeOK
  BY DEF TypeInv
<1> QED
  BY TypeInit, TypeStep, <1>1, PTL DEF Spec

-----------------------------------------------------------------------------
(***************************************************************************)
(* Agreement.  QuiescentAgreement speaks of a worker at rest; what makes   *)
(* it inductive is that at every moment an edit not yet in the memory of   *)
(* the process is in the queue, in the request being reconciled, or in an  *)
(* error that is reported.                                                 *)
(***************************************************************************)

\* The copy of the AntreaInstall is fresh unless an event is queued.
FreshInstall ==
  "install" \notin queue /\ cr # Nil =>
    /\ pc = "compare" => oper = cr
    /\ pc \in Decided => oper = FillConfigs(clus, cr)

\* So is the copy of the Network.
FreshNetwork ==
  "cluster" \notin queue /\ net # Nil =>
    (pc \in {"getOperatorNetwork", "getInstall", "compare"} \cup Decided
       => clus = net)

InstallAgreed ==
  /\ pc # "down" /\ failing = {} /\ cr # Nil
  /\ "install" \notin queue /\ req # "install"
  => appliedOper # Nil /\ appliedOper \in {cr, FillConfigs(appliedCluster, cr)}

NetworkAgreed ==
  /\ Openshift /\ pc # "down" /\ failing = {} /\ net # Nil
  /\ "cluster" \notin queue /\ req # "cluster"
  => appliedCluster = net

AgreementInv ==
  TypeInv /\ FreshInstall /\ FreshNetwork /\ InstallAgreed /\ NetworkAgreed

\* A process that has not started remembers nothing.
LEMMA AgreementInit == Init => AgreementInv
<1> SUFFICES ASSUME Init PROVE AgreementInv
  OBVIOUS
<1>1. TypeInv
  BY TypeInit
<1> QED
  BY <1>1 DEF Init, AgreementInv, FreshInstall, FreshNetwork, InstallAgreed,
     NetworkAgreed, Decided, ApplySteps

\* Every action keeps the agreement of the memory with what users wrote, or
\* leaves a key in the queue, a step to take or a reported failure.
LEMMA AgreementStep == AgreementInv /\ [Next]_vars => AgreementInv'
<1> SUFFICES ASSUME AgreementInv, [Next]_vars PROVE AgreementInv'
  OBVIOUS
<1> USE InstallAssumption
<1>0. TypeInv'
  BY TypeStep DEF AgreementInv
<1> USE DEF AgreementInv, FreshInstall, FreshNetwork, InstallAgreed,
   NetworkAgreed, TypeInv, TypeOK, LocalsOK, vars, users, pods, local, memory,
   bounds, Decided, ApplySteps
<1>1. CASE \E s \in InstallEdits : WriteInstall(s)
  BY <1>0, <1>1 DEF WriteInstall, Notify
<1>2. CASE \E n \in NetworkEdits : WriteNetwork(n)
  BY <1>0, <1>2 DEF WriteNetwork, Notify
<1>3. CASE \E o \in OperatorNetworkEdits : WriteOperatorNetwork(o)
  BY <1>0, <1>3 DEF WriteOperatorNetwork
<1>4. CASE \E k \in Keys : SpuriousEvent(k)
  BY <1>0, <1>4 DEF SpuriousEvent
<1>5. CASE StartAgentPods
  BY <1>0, <1>5 DEF StartAgentPods
<1>6. CASE StartControllerPods
  BY <1>0, <1>6 DEF StartControllerPods
<1>7. CASE Crash
  BY <1>0, <1>7 DEF Crash, Die, Wiped
<1>8. CASE StartOperator
  BY <1>0, <1>8 DEF StartOperator
<1>9. CASE \E k \in Keys : Ignore(k)
  BY <1>0, <1>9 DEF Ignore, WatchedKeys
<1>10. CASE \E k \in WatchedKeys : Dequeue(k)
  BY <1>0, <1>10 DEF Dequeue, WatchedKeys, Openshift
<1>11. CASE GetNetworkFails
  BY <1>0, <1>11 DEF GetNetworkFails, SetDegraded, ReturnError, Done
<1>12. CASE NetworkNotFound
  BY <1>0, <1>12 DEF NetworkNotFound, SetDegraded, Return, Done
<1>13. CASE NetworkUnchanged
  BY <1>0, <1>13 DEF NetworkUnchanged, SameNetwork, Return, Done
<1>14. CASE GetNetwork
  BY <1>0, <1>14 DEF GetNetwork
<1>15. CASE GetOperatorNetworkFails
  BY <1>0, <1>15 DEF GetOperatorNetworkFails, ReturnError, Done
<1>16. CASE OperatorNetworkNotFound
  BY <1>0, <1>16 DEF OperatorNetworkNotFound, SetDegraded, Return, Done
<1>17. CASE GetOperatorNetwork
  BY <1>0, <1>17 DEF GetOperatorNetwork
<1>18. CASE GetInstallFails
  BY <1>0, <1>18 DEF GetInstallFails, SetDegraded, ReturnError, Done
<1>19. CASE InstallNotFound
  BY <1>0, <1>19 DEF InstallNotFound, SetDegraded, Return, Done
<1>20. CASE InstallUnchanged
  BY <1>0, <1>20 DEF InstallUnchanged, SameInstall, Return, Done
<1>21. CASE GetInstall
  BY <1>0, <1>21 DEF GetInstall
<1>22. CASE FillConfigsPanics
  BY <1>0, <1>22 DEF FillConfigsPanics, Die, Wiped
<1>23. CASE RejectConfig
  BY <1>0, <1>23 DEF RejectConfig, SetDegraded, ReturnError, Done
<1>24. CASE GetAppliedConfigFails
  BY <1>0, <1>24 DEF GetAppliedConfigFails, SetDegraded, ReturnError, Done
<1>25. CASE Compare
  BY <1>0, <1>25 DEF Compare, Accepted, AfterApply
<1>26. CASE Publish
  BY <1>0, <1>26 DEF Publish
<1>27. CASE Apply
  BY <1>0, <1>27 DEF Apply
<1>28. CASE ApplyFails
  BY <1>0, <1>28 DEF ApplyFails, SetDegraded, ReturnError, Done
<1>29. CASE DeleteAgentPods
  BY <1>0, <1>29 DEF DeleteAgentPods
<1>30. CASE DeleteAgentPodsFails
  BY <1>0, <1>30 DEF DeleteAgentPodsFails, SetDegraded, ReturnError, Done
<1>31. CASE DeleteControllerPods
  BY <1>0, <1>31 DEF DeleteControllerPods, AfterApply
<1>32. CASE DeleteControllerPodsFails
  BY <1>0, <1>32 DEF DeleteControllerPodsFails, SetDegraded, ReturnError, Done
<1>33. CASE HasDefaultMTUChangePanics
  BY <1>0, <1>33 DEF HasDefaultMTUChangePanics, Die, Wiped
<1>34. CASE NetworkStatusNotNeeded
  BY <1>0, <1>34 DEF NetworkStatusNotNeeded
<1>35. CASE UpdateNetworkStatus
  BY <1>0, <1>35 DEF UpdateNetworkStatus
<1>36. CASE UpdateNetworkStatusFails
  BY <1>0, <1>36 DEF UpdateNetworkStatusFails, SetDegraded, ReturnError, Done
<1>37. CASE Finish
  BY <1>0, <1>37, NilAssumption DEF Finish, Return, Done
<1>38. CASE UNCHANGED vars
  BY <1>0, <1>38
<1>39. CASE PublishFails
  BY <1>0, <1>39 DEF PublishFails, SetDegraded, ReturnError, Done
<1> QED
  BY <1>1, <1>2, <1>3, <1>4, <1>5, <1>6, <1>7, <1>8, <1>9, <1>10, <1>11,
     <1>12, <1>13, <1>14, <1>15, <1>16, <1>17, <1>18, <1>19, <1>20, <1>21,
     <1>22, <1>23, <1>24, <1>25, <1>26, <1>27, <1>28, <1>29, <1>30, <1>31,
     <1>32, <1>33, <1>34, <1>35, <1>36, <1>37, <1>38, <1>39 DEF Next, Environment,
     Users, Reconcile, Reporting, Silent

\* At rest, what the queue, the request and the failing levels excuse is nothing.
LEMMA AgreementHolds ==
  AgreementInv =>
    /\ QuiescentAgreement
    /\ SettledClean /\ DesiredExists => appliedOper # Nil
<1> SUFFICES ASSUME AgreementInv, SettledClean, DesiredExists
             PROVE  Agreed /\ appliedOper # Nil
  BY DEF QuiescentAgreement
<1>1. pc = "idle" /\ req = Nil /\ queue = {} /\ failing = {} /\ cr # Nil
  BY DEF AgreementInv, TypeInv, LocalsOK, SettledClean, Settled, DesiredExists
<1>2. appliedOper # Nil /\ appliedOper \in {cr, FillConfigs(appliedCluster, cr)}
  BY <1>1, InstallAssumption DEF AgreementInv, InstallAgreed
<1>3. CASE Openshift
  <2>1. appliedCluster = net
    BY <1>1, <1>3, InstallAssumption DEF AgreementInv, NetworkAgreed, DesiredExists
  <2> QED
    BY <1>2, <2>1 DEF Agreed
<1>4. CASE ~ Openshift
  <2>1. appliedCluster = Nil /\ net = Nil
    BY <1>4, InstallAssumption DEF AgreementInv, TypeInv, TypeOK, ClusterNets, Openshift
  <2> QED
    BY <1>2, <2>1 DEF Agreed
<1> QED
  BY <1>3, <1>4

\* A settled worker without a Degraded condition remembers what users wrote,
\* through any number of edits, failed calls and restarts.
THEOREM Agreement == Spec => []QuiescentAgreement
  BY AgreementInit, AgreementStep, AgreementHolds, PTL DEF Spec

-----------------------------------------------------------------------------
(***************************************************************************)
(* The order of the manifest.  From the moment the DaemonSet is        *)
(* touched until the old pods are deleted, the ConfigMap is the new one.   *)
(***************************************************************************)
ConfigMapApplied ==
  pc \in {"deployment", "daemonSet", "deleteAgentPods", "deleteControllerPods"} =>
    objs.configMap = Rendered(oper, opn).configMap

ConfigMapInv == TypeInv /\ ConfigMapApplied

\* Past the ConfigMap's step, the cluster's ConfigMap is the rendered one.
LEMMA ConfigMapStep == ConfigMapInv /\ [Next]_vars => ConfigMapInv'
<1> SUFFICES ASSUME ConfigMapInv, [Next]_vars PROVE ConfigMapInv'
  OBVIOUS
<1>0. TypeInv'
  BY TypeStep DEF ConfigMapInv
<1> USE DEF ConfigMapInv, ConfigMapApplied, TypeInv, TypeOK, vars, users,
   pods, local, memory, bounds, ApplySteps
<1>1. CASE \E s \in InstallEdits : WriteInstall(s)
  BY <1>0, <1>1 DEF WriteInstall, Notify
<1>2. CASE \E n \in NetworkEdits : WriteNetwork(n)
  BY <1>0, <1>2 DEF WriteNetwork, Notify
<1>3. CASE \E o \in OperatorNetworkEdits : WriteOperatorNetwork(o)
  BY <1>0, <1>3 DEF WriteOperatorNetwork
<1>4. CASE \E k \in Keys : SpuriousEvent(k)
  BY <1>0, <1>4 DEF SpuriousEvent
<1>5. CASE StartAgentPods
  BY <1>0, <1>5 DEF StartAgentPods
<1>6. CASE StartControllerPods
  BY <1>0, <1>6 DEF StartControllerPods
<1>7. CASE Crash
  BY <1>0, <1>7 DEF Crash, Die, Wiped
<1>8. CASE StartOperator
  BY <1>0, <1>8 DEF StartOperator
<1>9. CASE \E k \in Keys : Ignore(k)
  BY <1>0, <1>9 DEF Ignore, WatchedKeys
<1>10. CASE \E k \in WatchedKeys : Dequeue(k)
  BY <1>0, <1>10 DEF Dequeue, WatchedKeys, Openshift
<1>11. CASE GetNetworkFails
  BY <1>0, <1>11 DEF GetNetworkFails, SetDegraded, ReturnError, Done
<1>12. CASE NetworkNotFound
  BY <1>0, <1>12 DEF NetworkNotFound, SetDegraded, Return, Done
<1>13. CASE NetworkUnchanged
  BY <1>0, <1>13 DEF NetworkUnchanged, SameNetwork, Return, Done
<1>14. CASE GetNetwork
  BY <1>0, <1>14 DEF GetNetwork
<1>15. CASE GetOperatorNetworkFails
  BY <1>0, <1>15 DEF GetOperatorNetworkFails, ReturnError, Done
<1>16. CASE OperatorNetworkNotFound
  BY <1>0, <1>16 DEF OperatorNetworkNotFound, SetDegraded, Return, Done
<1>17. CASE GetOperatorNetwork
  BY <1>0, <1>17 DEF GetOperatorNetwork
<1>18. CASE GetInstallFails
  BY <1>0, <1>18 DEF GetInstallFails, SetDegraded, ReturnError, Done
<1>19. CASE InstallNotFound
  BY <1>0, <1>19 DEF InstallNotFound, SetDegraded, Return, Done
<1>20. CASE InstallUnchanged
  BY <1>0, <1>20 DEF InstallUnchanged, SameInstall, Return, Done
<1>21. CASE GetInstall
  BY <1>0, <1>21 DEF GetInstall
<1>22. CASE FillConfigsPanics
  BY <1>0, <1>22 DEF FillConfigsPanics, Die, Wiped
<1>23. CASE RejectConfig
  BY <1>0, <1>23 DEF RejectConfig, SetDegraded, ReturnError, Done
<1>24. CASE GetAppliedConfigFails
  BY <1>0, <1>24 DEF GetAppliedConfigFails, SetDegraded, ReturnError, Done
<1>25. CASE Compare
  BY <1>0, <1>25 DEF Compare, Accepted, AfterApply
<1>26. CASE Publish
  BY <1>0, <1>26 DEF Publish
<1>27. CASE Apply
  BY <1>0, <1>27 DEF Apply, AppliedObjs
<1>28. CASE ApplyFails
  BY <1>0, <1>28 DEF ApplyFails, SetDegraded, ReturnError, Done, AppliedObjs
<1>29. CASE DeleteAgentPods
  BY <1>0, <1>29 DEF DeleteAgentPods
<1>30. CASE DeleteAgentPodsFails
  BY <1>0, <1>30 DEF DeleteAgentPodsFails, SetDegraded, ReturnError, Done
<1>31. CASE DeleteControllerPods
  BY <1>0, <1>31 DEF DeleteControllerPods, AfterApply
<1>32. CASE DeleteControllerPodsFails
  BY <1>0, <1>32 DEF DeleteControllerPodsFails, SetDegraded, ReturnError, Done
<1>33. CASE HasDefaultMTUChangePanics
  BY <1>0, <1>33 DEF HasDefaultMTUChangePanics, Die, Wiped
<1>34. CASE NetworkStatusNotNeeded
  BY <1>0, <1>34 DEF NetworkStatusNotNeeded
<1>35. CASE UpdateNetworkStatus
  BY <1>0, <1>35 DEF UpdateNetworkStatus
<1>36. CASE UpdateNetworkStatusFails
  BY <1>0, <1>36 DEF UpdateNetworkStatusFails, SetDegraded, ReturnError, Done
<1>37. CASE Finish
  BY <1>0, <1>37 DEF Finish, Return, Done
<1>38. CASE UNCHANGED vars
  BY <1>0, <1>38
<1>39. CASE PublishFails
  BY <1>0, <1>39 DEF PublishFails, SetDegraded, ReturnError, Done
<1> QED
  BY <1>1, <1>2, <1>3, <1>4, <1>5, <1>6, <1>7, <1>8, <1>9, <1>10, <1>11,
     <1>12, <1>13, <1>14, <1>15, <1>16, <1>17, <1>18, <1>19, <1>20, <1>21,
     <1>22, <1>23, <1>24, <1>25, <1>26, <1>27, <1>28, <1>29, <1>30, <1>31,
     <1>32, <1>33, <1>34, <1>35, <1>36, <1>37, <1>38, <1>39 DEF Next, Environment,
     Users, Reconcile, Reporting, Silent

\* No workload changes and no pod is deleted before the ConfigMap that the
\* pods will read is in place.
THEOREM ConfigMapFirst == Spec => ConfigMapComesFirst
<1> DEFINE Disturbed == \/ objs'.daemonSet # objs.daemonSet
                        \/ objs'.deployment # objs.deployment
                        \/ agentPods # Nil /\ agentPods' = Nil
                        \/ controllerPods # Nil /\ controllerPods' = Nil
           Ordered   == Disturbed => objs.configMap = Rendered(oper, opn).configMap
<1>1. Init => ConfigMapInv
  BY TypeInit DEF Init, ConfigMapInv, ConfigMapApplied
<1>2. ConfigMapInv /\ [Next]_vars => [Ordered]_vars
  <2> SUFFICES ASSUME ConfigMapInv, Next, Disturbed
               PROVE  objs.configMap = Rendered(oper, opn).configMap
    OBVIOUS
  <2>1. objs.configMap # Nil => objs.configMap \in ConfigMaps
    BY DEF ConfigMapInv, TypeInv, TypeOK
  <2>2. CASE StartAgentPods
    <3>1. agentPods' \in AgentPods
      BY <2>1, <2>2, PodsTyped DEF StartAgentPods, ConfigMapInv, TypeInv, TypeOK
    <3> QED
      BY <2>2, <3>1, NilAssumption DEF StartAgentPods
  <2>3. CASE StartControllerPods
    <3>1. controllerPods' \in ControllerPods
      BY <2>1, <2>3, PodsTyped DEF StartControllerPods, ConfigMapInv, TypeInv, TypeOK
    <3> QED
      BY <2>3, <3>1, NilAssumption DEF StartControllerPods
  <2>4. CASE Apply \/ ApplyFails
    <3>1. pc = "configMap" => ~ Disturbed
      BY <2>4 DEF Apply, ApplyFails, AppliedObjs, pods, ConfigMapInv, TypeInv, TypeOK
    <3> QED
      BY <2>4, <3>1 DEF Apply, ApplyFails, ApplySteps, ConfigMapInv, ConfigMapApplied
  <2>5. CASE DeleteAgentPods \/ DeleteAgentPodsFails
             \/ DeleteControllerPods \/ DeleteControllerPodsFails
    BY <2>5 DEF DeleteAgentPods, DeleteAgentPodsFails, DeleteControllerPods,
       DeleteControllerPodsFails, ConfigMapInv, ConfigMapApplied
  <2>6. ASSUME UNCHANGED <<objs, pods>> PROVE FALSE
    BY <2>6 DEF pods
  <2>7. CASE \/ (\E s \in InstallEdits : WriteInstall(s))
             \/ (\E n \in NetworkEdits : WriteNetwork(n))
             \/ (\E o \in OperatorNetworkEdits : WriteOperatorNetwork(o))
             \/ (\E k \in Keys : SpuriousEvent(k))
             \/ Crash
             \/ StartOperator
             \/ (\E k \in Keys : Ignore(k))
             \/ (\E k \in WatchedKeys : Dequeue(k))
             \/ GetNetworkFails
             \/ NetworkNotFound
             \/ NetworkUnchanged
             \/ GetNetwork
             \/ GetOperatorNetworkFails
             \/ OperatorNetworkNotFound
             \/ GetOperatorNetwork
             \/ GetInstallFails
             \/ InstallNotFound
             \/ InstallUnchanged
             \/ GetInstall
             \/ FillConfigsPanics
             \/ RejectConfig
             \/ GetAppliedConfigFails
             \/ Compare
             \/ Publish
             \/ PublishFails
             \/ HasDefaultMTUChangePanics
             \/ NetworkStatusNotNeeded
             \/ UpdateNetworkStatus
             \/ UpdateNetworkStatusFails
             \/ Finish
    <3>1. UNCHANGED <<objs, pods>>
      BY <2>7 DEF WriteInstall, WriteNetwork, WriteOperatorNetwork,
         SpuriousEvent, Crash, StartOperator, Ignore, Dequeue,
         GetNetworkFails, NetworkNotFound, NetworkUnchanged, GetNetwork,
         GetOperatorNetworkFails, OperatorNetworkNotFound, GetOperatorNetwork,
         GetInstallFails, InstallNotFound, InstallUnchanged, GetInstall,
         FillConfigsPanics, RejectConfig, GetAppliedConfigFails, Compare,
         Publish, PublishFails, HasDefaultMTUChangePanics, NetworkStatusNotNeeded,
         UpdateNetworkStatus, UpdateNetworkStatusFails, Finish, Die
    <3> QED
      BY <2>6, <3>1
  <2> QED
    BY <2>2, <2>3, <2>4, <2>5, <2>7 DEF Next, Environment, Users, Reconcile,
       Reporting, Silent
<1> QED
  BY <1>1, <1>2, ConfigMapStep, PTL DEF Spec, ConfigMapComesFirst

-----------------------------------------------------------------------------
(***************************************************************************)
(* Crash recovery.  As long as no API call fails and no Network is         *)
(* deleted, only crashes and panics interrupt a reconciliation that has    *)
(* applied something, and the memory they leave is empty: what is          *)
(* remembered as applied is in the cluster.                                *)
(***************************************************************************)
Matches(c) ==
  /\ objs.configMap = Rendered(c, Nil).configMap
  /\ objs.deployment = Rendered(c, Nil).deployment

AfterDeployment == {"daemonSet", "deleteAgentPods", "deleteControllerPods",
                    "updateNetworkStatus", "finish"}

AppliedMatches ==
  appliedOper # Nil /\ pc \notin {"deployment"} \cup AfterDeployment =>
    Matches(appliedOper)

OperMatches ==
  /\ pc = "deployment" => objs.configMap = Rendered(oper, Nil).configMap
  /\ pc \in AfterDeployment => Matches(oper)

NetworkExists == Openshift => net # Nil

CrashInv ==
  TypeInv /\ NetworkExists /\ (failures = 0 => AppliedMatches /\ OperMatches)

\* Nobody else writes the Network.
LEMMA NetworkStays ==
  ASSUME Nil \notin NetworkEdits
  PROVE  NetworkExists /\ [Next]_vars => NetworkExists'
<1> SUFFICES ASSUME NetworkExists, [Next]_vars PROVE NetworkExists'
  OBVIOUS
<1>1. CASE \E n \in NetworkEdits : WriteNetwork(n)
  BY <1>1 DEF WriteNetwork, NetworkExists
<1>2. CASE UNCHANGED net
  BY <1>2 DEF NetworkExists
<1>3. (\E n \in NetworkEdits : WriteNetwork(n)) \/ UNCHANGED net
  BY DEF vars, users, Next, Environment, Users, Reconcile, Reporting, Silent,
     WriteInstall, WriteOperatorNetwork, SpuriousEvent, StartAgentPods,
     StartControllerPods, Crash, Die, StartOperator, Ignore, Dequeue,
     GetNetworkFails, NetworkNotFound, NetworkUnchanged, GetNetwork,
     GetOperatorNetworkFails, OperatorNetworkNotFound, GetOperatorNetwork,
     GetInstallFails, InstallNotFound, InstallUnchanged, GetInstall,
     FillConfigsPanics, RejectConfig, GetAppliedConfigFails, Compare, Publish,
     PublishFails, Apply, ApplyFails, DeleteAgentPods, DeleteAgentPodsFails,
     DeleteControllerPods, DeleteControllerPodsFails, HasDefaultMTUChangePanics,
     NetworkStatusNotNeeded, UpdateNetworkStatus, UpdateNetworkStatusFails, Finish
<1> QED
  BY <1>1, <1>2, <1>3

\* The operator Network decides about the DaemonSet alone.
LEMMA RenderedAlike ==
  ASSUME NEW c, NEW o
  PROVE  /\ Rendered(c, o).configMap = Rendered(c, Nil).configMap
         /\ Rendered(c, o).deployment = Rendered(c, Nil).deployment
  BY DEF Rendered

\* A configuration equal to the one read back from the cluster renders to
\* what the cluster holds; so does one equal to another configuration.
LEMMA SameConfigSameObjects ==
  ASSUME NEW c, NEW d,
         c.agent = d.agent, c.cni = d.cni,
         c.controller = d.controller, c.image = d.image
  PROVE  /\ Rendered(c, Nil).configMap = Rendered(d, Nil).configMap
         /\ Rendered(c, Nil).deployment = Rendered(d, Nil).deployment
  BY DEF Rendered

\* When NeedApplyChange finds no change the two configurations are equal.
LEMMA NoChangeIsSame ==
  ASSUME NEW p, NEW c, NeedApplyChange(p, c) = NoChange
  PROVE  /\ p # Nil
         /\ p.agent = c.agent /\ p.cni = c.cni
         /\ p.controller = c.controller /\ p.image = c.image
<1> DEFINE n == NeedApplyChange(p, c)
<1>1. n.agent = FALSE /\ n.controller = FALSE /\ n.image = FALSE
  BY DEF NoChange
<1>2. p # Nil
  <2> SUFFICES ASSUME p = Nil PROVE FALSE
    OBVIOUS
  <2>1. n.agent = TRUE
    BY DEF NeedApplyChange
  <2> QED
    BY <1>1, <2>1
<1>3. n = [agent      |-> p.image # c.image \/ p.agent # c.agent \/ p.cni # c.cni,
           controller |-> p.image # c.image \/ p.controller # c.controller,
           image      |-> p.image # c.image]
  BY <1>2 DEF NeedApplyChange
<1> HIDE DEF n
<1>4. ~ (p.image # c.image \/ p.agent # c.agent \/ p.cni # c.cni)
  BY <1>1, <1>3
<1>5. ~ (p.image # c.image \/ p.controller # c.controller)
  BY <1>1, <1>3
<1> QED
  BY <1>2, <1>4, <1>5

\* A text read back from the ConfigMap is embedded unchanged.
LEMMA EmbedIdempotent ==
  ASSUME NEW t PROVE Embed(Embed(t)) = Embed(t)
  BY DEF Embed

\* Rendering what getAppliedOperConfig reads back gives what the cluster holds.
LEMMA ReadBackMatches ==
  ASSUME NEW m \in ConfigMaps, NEW w \in Deployments
  PROVE  /\ m = Rendered(ReadBack(m, w), Nil).configMap
         /\ w = Rendered(ReadBack(m, w), Nil).deployment
<1>1. PICK c \in FilledSpecs, o \in OperNets : m = Rendered(c, o).configMap
  BY DEF ConfigMaps, Objects
<1>2. PICK d \in FilledSpecs, q \in OperNets : w = Rendered(d, q).deployment
  BY DEF Deployments, Objects
<1>3. m = [agent |-> Embed(c.agent), cni |-> Embed(c.cni),
           controller |-> Embed(c.controller)]
  BY <1>1 DEF Rendered
<1>4. w = [image |-> d.image]
  BY <1>2 DEF Rendered
<1>5. Rendered(ReadBack(m, w), Nil).configMap =
        [agent |-> Embed(Embed(c.agent)), cni |-> Embed(Embed(c.cni)),
         controller |-> Embed(Embed(c.controller))]
  BY <1>3 DEF Rendered, ReadBack
<1>6. Rendered(ReadBack(m, w), Nil).deployment = [image |-> d.image]
  BY <1>4 DEF Rendered, ReadBack
<1> QED
  BY <1>3, <1>4, <1>5, <1>6, EmbedIdempotent

\* No action fails more than one call.
LEMMA FailureCount ==
  [Next]_vars => failures' = failures \/ failures' = failures + 1
  BY DEF vars, bounds, Next, Environment, Users, Reconcile, Reporting, Silent,
     WriteInstall, WriteNetwork,
     WriteOperatorNetwork, SpuriousEvent, StartAgentPods, StartControllerPods,
     Crash, StartOperator, Ignore, Dequeue, GetNetworkFails, NetworkNotFound,
     NetworkUnchanged, GetNetwork, GetOperatorNetworkFails,
     OperatorNetworkNotFound, GetOperatorNetwork, GetInstallFails,
     InstallNotFound, InstallUnchanged, GetInstall, FillConfigsPanics,
     RejectConfig, GetAppliedConfigFails, Compare, Publish, PublishFails, Apply, ApplyFails,
     DeleteAgentPods, DeleteAgentPodsFails, DeleteControllerPods,
     DeleteControllerPodsFails, HasDefaultMTUChangePanics,
     NetworkStatusNotNeeded, UpdateNetworkStatus, UpdateNetworkStatusFails,
     Finish, Fault

\* A process that has not started remembers nothing.
LEMMA CrashInit ==
  ASSUME Nil \notin NetworkEdits
  PROVE  Init => CrashInv
<1> SUFFICES ASSUME Init PROVE CrashInv
  OBVIOUS
<1>1. NetworkExists
  BY DEF Init, NetworkExists, ClusterNets
<1> QED
  BY <1>1, TypeInit DEF Init, CrashInv, AppliedMatches, OperMatches, AfterDeployment

\* Every action keeps what the worker remembers, or reads back, in the cluster.
LEMMA CrashStep ==
  ASSUME Nil \notin NetworkEdits
  PROVE  CrashInv /\ [Next]_vars => CrashInv'
<1> SUFFICES ASSUME CrashInv, [Next]_vars PROVE CrashInv'
  OBVIOUS
<1> USE InstallAssumption
<1>0. TypeInv'
  BY TypeStep DEF CrashInv
<1>n. NetworkExists'
  BY NetworkStays DEF CrashInv
<1> SUFFICES ASSUME failures' = 0 PROVE (AppliedMatches /\ OperMatches)'
  BY <1>0, <1>n DEF CrashInv
<1>c. failures \in Nat
  BY DEF CrashInv, TypeInv, TypeOK
<1>d. failures' = failures \/ failures' = failures + 1
  BY FailureCount
<1>e. failures = 0 /\ ~ Fault
  BY <1>c, <1>d DEF Fault
<1> USE <1>e
<1>a. Openshift => net # Nil
  BY DEF CrashInv, NetworkExists
<1>b. pc = "updateNetworkStatus" => Openshift
  BY DEF CrashInv, TypeInv, LocalsOK
<1> USE DEF CrashInv, AppliedMatches, OperMatches, Matches, vars, users, pods,
   local, memory, bounds, AfterDeployment
<1>1. CASE \/ GetNetworkFails
          \/ GetOperatorNetworkFails
          \/ GetInstallFails
          \/ GetAppliedConfigFails
          \/ PublishFails
          \/ ApplyFails
          \/ DeleteAgentPodsFails
          \/ DeleteControllerPodsFails
          \/ UpdateNetworkStatusFails
  BY <1>a, <1>b, <1>1 DEF GetNetworkFails, GetOperatorNetworkFails,
     GetInstallFails, GetAppliedConfigFails, PublishFails, ApplyFails,
     DeleteAgentPodsFails, DeleteControllerPodsFails, UpdateNetworkStatusFails
<1>2. CASE \E s \in InstallEdits : WriteInstall(s)
  BY <1>0, <1>2 DEF WriteInstall, Notify
<1>3. CASE \E n \in NetworkEdits : WriteNetwork(n)
  BY <1>0, <1>3 DEF WriteNetwork, Notify
<1>4. CASE \E o \in OperatorNetworkEdits : WriteOperatorNetwork(o)
  BY <1>0, <1>4 DEF WriteOperatorNetwork
<1>5. CASE \E k \in Keys : SpuriousEvent(k)
  BY <1>0, <1>5 DEF SpuriousEvent
<1>6. CASE StartAgentPods
  BY <1>0, <1>6 DEF StartAgentPods
<1>7. CASE StartControllerPods
  BY <1>0, <1>7 DEF StartControllerPods
<1>8. CASE Crash
  BY <1>0, <1>8 DEF Crash, Die, Wiped
<1>9. CASE StartOperator
  BY <1>0, <1>9 DEF StartOperator
<1>10. CASE \E k \in Keys : Ignore(k)
  BY <1>0, <1>10 DEF Ignore, WatchedKeys
<1>11. CASE \E k \in WatchedKeys : Dequeue(k)
  BY <1>0, <1>11 DEF Dequeue, WatchedKeys
<1>12. CASE InstallNotFound
  BY <1>0, <1>12 DEF InstallNotFound, SetDegraded, Return, Done
<1>13. CASE InstallUnchanged
  BY <1>0, <1>13 DEF InstallUnchanged, SameInstall, Return, Done
<1>14. CASE GetInstall
  BY <1>0, <1>14 DEF GetInstall
<1>15. CASE FillConfigsPanics
  BY <1>0, <1>15 DEF FillConfigsPanics, Die, Wiped
<1>16. CASE RejectConfig
  BY <1>0, <1>16 DEF RejectConfig, SetDegraded, ReturnError, Done
<1>17. CASE Compare
  <2>1. pc = "compare" /\ UNCHANGED <<objs, memory>>
    BY <1>17 DEF Compare, Accepted
  <2>2. pc' = "publish" \/ (pc' = AfterApply /\ change' = NoChange)
    BY <1>17, ChangeTyped DEF Compare, NoChange, NeedApplyChange
  <2>3. CASE pc' = "publish"
    BY <1>0, <2>1, <2>3 DEF CrashInv, AppliedMatches, OperMatches, Matches, memory
  <2>4. CASE pc' = AfterApply /\ change' = NoChange
    <3> DEFINE pre == getAppliedOperConfig
    <3>1. pre # Nil /\ pre.agent = oper'.agent /\ pre.cni = oper'.cni
            /\ pre.controller = oper'.controller /\ pre.image = oper'.image
      <4>1. NeedApplyChange(pre, oper') = NoChange
        BY <1>17, <2>4 DEF Compare
      <4> HIDE DEF pre
      <4> QED
        BY <4>1, NoChangeIsSame
    <3>2. Matches(pre)
      <4>1. CASE appliedOper # Nil
        BY <2>1, <4>1 DEF getAppliedOperConfig, CrashInv, AppliedMatches
      <4>2. CASE appliedOper = Nil
        <5>1. objs.configMap \in ConfigMaps /\ objs.deployment \in Deployments
                /\ pre = ReadBack(objs.configMap, objs.deployment)
          BY <3>1, <4>2 DEF getAppliedOperConfig, CrashInv, TypeInv, TypeOK
        <5> QED
          BY <5>1, ReadBackMatches DEF Matches
      <4> QED
        BY <4>1, <4>2
    <3>3. objs.configMap = Rendered(oper', Nil).configMap
            /\ objs.deployment = Rendered(oper', Nil).deployment
      <4> HIDE DEF pre
      <4> QED
        BY <3>1, <3>2, SameConfigSameObjects DEF Matches
    <3> QED
      BY <1>0, <2>1, <2>4, <3>3 DEF CrashInv, AppliedMatches, OperMatches, Matches, memory,
         AfterApply
  <2> QED
    BY <2>2, <2>3, <2>4
<1>18. CASE Publish
  BY <1>0, <1>18 DEF Publish
<1>19. CASE Apply
  BY <1>0, <1>19, RenderedAlike DEF Apply, AppliedObjs, ApplySteps, TypeInv, TypeOK
<1>20. CASE DeleteAgentPods
  BY <1>0, <1>20 DEF DeleteAgentPods
<1>21. CASE DeleteControllerPods
  BY <1>0, <1>21 DEF DeleteControllerPods, AfterApply
<1>22. CASE Finish
  BY <1>0, <1>22 DEF Finish, Return, Done
<1>23. CASE NetworkNotFound \/ OperatorNetworkNotFound
  BY <1>0, <1>23 DEF NetworkNotFound, OperatorNetworkNotFound, SetDegraded, Return, Done
<1>24. CASE NetworkUnchanged
  BY <1>0, <1>24 DEF NetworkUnchanged, Return, Done
<1>25. CASE GetNetwork \/ GetOperatorNetwork
  BY <1>0, <1>25 DEF GetNetwork, GetOperatorNetwork
<1>26. CASE HasDefaultMTUChangePanics
  BY <1>0, <1>26 DEF HasDefaultMTUChangePanics, Die, Wiped
<1>27. CASE NetworkStatusNotNeeded \/ UpdateNetworkStatus
  BY <1>0, <1>27 DEF NetworkStatusNotNeeded, UpdateNetworkStatus
<1>28. CASE UNCHANGED vars
  BY <1>0, <1>28
<1> QED
  BY <1>1, <1>2, <1>3, <1>4, <1>5, <1>6, <1>7, <1>8, <1>9, <1>10, <1>11,
     <1>12, <1>13, <1>14, <1>15, <1>16, <1>17, <1>18, <1>19, <1>20, <1>21,
     <1>22, <1>23, <1>24, <1>25, <1>26, <1>27, <1>28 DEF Next, Environment, Users, Reconcile,
       Reporting, Silent

\* As long as no Network is deleted and no call fails, a restart or a panic between
\* any two steps of applyConfig leaves a ConfigMap and a Deployment that the
\* operator does not mistake for the ones users asked for.  (The status of a deleted
\* Network cannot be written, which fails after the objects were applied.)
THEOREM CrashSafety ==
  ASSUME Nil \notin NetworkEdits
  PROVE  Spec => []CrashSafeObjects
<1>1. Init => CrashInv
  BY CrashInit
<1>2. CrashInv => CrashSafeObjects
  <2> SUFFICES ASSUME CrashInv, failures = 0, SettledClean, appliedOper # Nil
               PROVE  /\ objs.configMap = Installed.configMap
                      /\ objs.deployment = Installed.deployment
    BY DEF CrashSafeObjects
  <2> QED
    BY RenderedAlike DEF CrashInv, AppliedMatches, AfterDeployment, Matches,
       SettledClean, Settled, Installed
<1>3. CrashInv /\ [Next]_vars => CrashInv'
  BY CrashStep
<1> QED
  BY <1>1, <1>2, <1>3, PTL DEF Spec
=============================================================================

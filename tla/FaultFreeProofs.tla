--------------------------- MODULE FaultFreeProofs ---------------------------
(***************************************************************************)
(* Theorems about the runs of InstallReconciler in which no API call       *)
(* fails, for every set of configurations and any number of edits: what    *)
(* users wrote is what the cluster, SharedInfo and the Network show.       *)
(***************************************************************************)
EXTENDS InstallReconcilerProofs, ConfigProofs

-----------------------------------------------------------------------------
(***************************************************************************)
(* The steps that are left.                                                *)
(***************************************************************************)

\* A reconciliation ends or goes on, and nothing outside of the worker changes.
Moves ==
  \/ NetworkNotFound \/ NetworkUnchanged \/ GetNetwork
  \/ OperatorNetworkNotFound \/ GetOperatorNetwork
  \/ InstallNotFound \/ InstallUnchanged \/ GetInstall
  \/ RejectConfig
  \/ \E k \in Keys : Ignore(k)
  \/ \E k \in WatchedKeys : Dequeue(k)

Surroundings ==
  \/ Users
  \/ \E k \in Keys : SpuriousEvent(k)
  \/ StartAgentPods \/ StartControllerPods
  \/ StartOperator

Deaths == Crash \/ FillConfigsPanics \/ HasDefaultMTUChangePanics

Works ==
  \/ Compare \/ Publish \/ Apply
  \/ DeleteAgentPods \/ DeleteControllerPods
  \/ NetworkStatusNotNeeded \/ UpdateNetworkStatus
  \/ Finish

\* The status of a Network that users have deleted cannot be written.
NetworkGone == net = Nil /\ UpdateNetworkStatusFails

\* Without a failed call, one of these is taken.
LEMMA QuietSteps ==
  ASSUME TypeInv, [Next]_vars, failures' = 0
  PROVE  /\ failures = 0
         /\ Moves \/ Surroundings \/ Deaths \/ Works \/ NetworkGone \/ UNCHANGED vars
<1>1. failures \in Nat
  BY InstallAssumption DEF TypeInv, TypeOK
<1>2. failures = 0 /\ ~ Fault
  BY <1>1, FailureCount DEF Fault
<1>3. UpdateNetworkStatusFails => NetworkGone
  BY <1>2 DEF UpdateNetworkStatusFails, NetworkGone
<1>4. ~ \/ GetNetworkFails \/ GetOperatorNetworkFails \/ GetInstallFails
        \/ GetAppliedConfigFails \/ PublishFails \/ ApplyFails
        \/ DeleteAgentPodsFails \/ DeleteControllerPodsFails
  BY <1>2 DEF GetNetworkFails, GetOperatorNetworkFails, GetInstallFails,
     GetAppliedConfigFails, PublishFails, ApplyFails, DeleteAgentPodsFails,
     DeleteControllerPodsFails
<1> QED
  BY <1>2, <1>3, <1>4 DEF Next, Environment, Reconcile, Reporting, Silent, Moves,
     Surroundings, Deaths, Works

AtRest == {"idle", "getNetwork", "getOperatorNetwork", "getInstall", "compare"}

\* Where the steps that only read lead, and what they leave alone.
LEMMA MovesLeave ==
  ASSUME TypeInv, Moves
  PROVE  /\ pc \in AtRest /\ pc' \in AtRest
         /\ UNCHANGED <<users, objs, pods, netStatus, appliedCluster, appliedOper,
                        published, bounds>>
<1> USE DEF AtRest, users, pods, local, memory, bounds, Return, ReturnError, Done,
    SetDegraded
<1>1. CASE NetworkNotFound \/ NetworkUnchanged \/ GetNetwork
  BY <1>1 DEF NetworkNotFound, NetworkUnchanged, GetNetwork
<1>2. CASE OperatorNetworkNotFound \/ GetOperatorNetwork
  BY <1>2 DEF OperatorNetworkNotFound, GetOperatorNetwork
<1>3. CASE InstallNotFound \/ InstallUnchanged \/ GetInstall
  BY <1>3 DEF InstallNotFound, InstallUnchanged, GetInstall
<1>4. CASE RejectConfig
  BY <1>4 DEF RejectConfig
<1>5. CASE \E k \in Keys : Ignore(k)
  BY <1>5 DEF Ignore
<1>6. CASE \E k \in WatchedKeys : Dequeue(k)
  BY <1>6 DEF Dequeue
<1> QED
  BY <1>1, <1>2, <1>3, <1>4, <1>5, <1>6 DEF Moves

\* Users, pods and the start of the process leave the operator's work alone.
LEMMA SurroundingsLeave ==
  ASSUME Surroundings
  PROVE  /\ pc' = pc \/ (pc = "down" /\ pc' = "idle")
         /\ UNCHANGED <<objs, local, memory, failures, restarts>>
         /\ Nil \notin NetworkEdits => UNCHANGED netStatus
<1> USE DEF users, pods, local, memory, bounds
<1>1. CASE Users
  BY <1>1 DEF Users, WriteInstall, WriteNetwork, WriteOperatorNetwork
<1>2. CASE \E k \in Keys : SpuriousEvent(k)
  BY <1>2 DEF SpuriousEvent
<1>3. CASE StartAgentPods \/ StartControllerPods
  BY <1>3 DEF StartAgentPods, StartControllerPods
<1>4. CASE StartOperator
  BY <1>4 DEF StartOperator
<1> QED
  BY <1>1, <1>2, <1>3, <1>4 DEF Surroundings

\* The end of the process wipes its memory.
LEMMA DeathsLeave ==
  ASSUME Deaths
  PROVE  /\ pc' = "down"
         /\ appliedCluster' = Nil /\ appliedOper' = Nil /\ published' = Nil
         /\ UNCHANGED <<users, objs, pods, netStatus, failures>>
         /\ \/ restarts' = restarts + 1
            \/ restarts' = restarts /\ pc \in {"compare", "updateNetworkStatus"}
  BY DEF Deaths, Crash, FillConfigsPanics, HasDefaultMTUChangePanics, Die, Wiped,
     users, pods, bounds

-----------------------------------------------------------------------------
(***************************************************************************)
(* SharedInfo.  The published workloads are in the cluster, or applyConfig *)
(* has still to apply them.                                                *)
(***************************************************************************)
SharedMatches ==
  /\ pc = "down" => published = Nil
  /\ pc \in ApplySteps => published = WorkloadsOf(Rendered(oper, opn))
  /\ published # Nil /\ pc \notin {"configMap", "deployment"} =>
       published.deployment = objs.deployment
  /\ published # Nil /\ pc \notin ApplySteps => published.daemonSet = objs.daemonSet

SharedInv == TypeInv /\ (failures = 0 => SharedMatches)

\* Every step keeps what is published and what is applied together.
LEMMA SharedStep == SharedInv /\ [Next]_vars => SharedInv'
<1> SUFFICES ASSUME SharedInv, [Next]_vars, failures' = 0 PROVE SharedMatches'
  BY TypeStep DEF SharedInv
<1>1. TypeInv /\ SharedMatches
  BY QuietSteps DEF SharedInv
<1>2. Moves \/ Surroundings \/ Deaths \/ Works \/ NetworkGone \/ UNCHANGED vars
  BY QuietSteps DEF SharedInv
<1> USE <1>1 DEF SharedMatches, ApplySteps
<1>3. CASE Moves
  BY <1>3, MovesLeave DEF AtRest
<1>4. CASE Surroundings
  BY <1>4, SurroundingsLeave DEF local, memory
<1>5. CASE Deaths
  BY <1>5, DeathsLeave
<1>6. CASE Works
  <2> USE DEF local, memory, AfterApply
  <2>1. CASE Compare
    BY <2>1 DEF Compare, Accepted
  <2>2. CASE Publish
    BY <2>2 DEF Publish
  <2>3. CASE Apply
    BY <2>3 DEF Apply, AppliedObjs, TypeInv, TypeOK, WorkloadsOf
  <2>4. CASE DeleteAgentPods \/ DeleteControllerPods
    BY <2>4 DEF DeleteAgentPods, DeleteControllerPods
  <2>5. CASE NetworkStatusNotNeeded \/ UpdateNetworkStatus
    BY <2>5 DEF NetworkStatusNotNeeded, UpdateNetworkStatus
  <2>6. CASE Finish
    BY <2>6 DEF Finish, Return, Done
  <2> QED
    BY <1>6, <2>1, <2>2, <2>3, <2>4, <2>5, <2>6 DEF Works
<1>7. CASE NetworkGone
  BY <1>7 DEF NetworkGone, UpdateNetworkStatusFails, ReturnError, Done
<1>8. CASE UNCHANGED vars
  BY <1>8 DEF vars, local, memory
<1> QED
  BY <1>2, <1>3, <1>4, <1>5, <1>6, <1>7, <1>8

\* antreainstall_controller.go:480-481: what the pod reconciler recreates a deleted
\* workload from is what was applied, as long as no call has failed.
THEOREM SharedInfoCurrent == Spec => [](failures = 0 => SharedInfoIsCurrent)
<1>1. Init => SharedInv
  BY TypeInit DEF Init, SharedInv, SharedMatches, ApplySteps
<1>2. SharedInv => (failures = 0 => SharedInfoIsCurrent)
  BY DEF SharedInv, SharedMatches, ApplySteps, SharedInfoIsCurrent, SettledClean, Settled
<1>3. SharedInv /\ [Next]_vars => SharedInv'
  BY SharedStep
<1> QED
  BY <1>1, <1>2, <1>3, PTL DEF Spec

-----------------------------------------------------------------------------
(***************************************************************************)
(* The objects.  CrashInv leaves the DaemonSet to be shown: it follows the *)
(* Deployment, unless a crash comes between the two.                       *)
(***************************************************************************)
DaemonSetFollows ==
  objs.deployment # Nil /\ pc # "daemonSet" =>
    objs.daemonSet # Nil /\ objs.daemonSet.image = objs.deployment.image

CompleteInv == CrashInv /\ (failures = 0 /\ restarts = 0 => DaemonSetFollows)

\* Every step applies both or leaves both alone, but the one that leads to the other.
LEMMA CompleteStep ==
  ASSUME Nil \notin NetworkEdits
  PROVE  CompleteInv /\ [Next]_vars => CompleteInv'
<1> SUFFICES ASSUME CompleteInv, [Next]_vars, failures' = 0, restarts' = 0
             PROVE  DaemonSetFollows'
  BY CrashStep DEF CompleteInv
<1>0. TypeInv /\ CrashInv'
  BY CrashStep DEF CompleteInv, CrashInv
<1>1. failures = 0 /\ restarts \in Nat
  BY <1>0, QuietSteps, InstallAssumption DEF TypeInv, TypeOK
<1>2. Moves \/ Surroundings \/ Deaths \/ Works \/ NetworkGone \/ UNCHANGED vars
  BY <1>0, QuietSteps
<1> USE DEF DaemonSetFollows
<1>3. CASE Moves
  BY <1>0, <1>1, <1>3, MovesLeave DEF AtRest, CompleteInv, bounds
<1>4. CASE Surroundings
  BY <1>1, <1>4, SurroundingsLeave DEF CompleteInv
<1>5. CASE Deaths
  BY <1>1, <1>5, DeathsLeave DEF CompleteInv
<1>6. CASE Works
  <2>1. restarts = 0
    BY <1>6 DEF Works, Compare, Publish, Apply, DeleteAgentPods, DeleteControllerPods,
       NetworkStatusNotNeeded, UpdateNetworkStatus, Finish, bounds
  <2>2. DaemonSetFollows
    BY <1>1, <2>1 DEF CompleteInv
  <2>3. CASE Apply
    <3>1. CASE pc = "daemonSet"
      <4>1. objs' = [objs EXCEPT !.daemonSet = Rendered(oper, opn).daemonSet]
        BY <2>3, <3>1 DEF Apply, AppliedObjs
      <4>2. objs.deployment = Rendered(oper, Nil).deployment
        BY <1>1, <3>1 DEF CompleteInv, CrashInv, OperMatches, AfterDeployment, Matches
      <4>3. oper \in FilledSpecs /\ opn \in OperNets
        BY <1>0, <3>1 DEF TypeInv, LocalsOK, Decided, ApplySteps
      <4>4. Rendered(oper, opn).daemonSet # Nil
        BY <4>3, RenderedTyped, NilAssumption
      <4>5. objs'.daemonSet = Rendered(oper, opn).daemonSet /\ UNCHANGED objs.deployment
        BY <1>0, <4>1 DEF TypeInv, TypeOK
      <4> QED
        BY <4>2, <4>4, <4>5 DEF Rendered
    <3>2. CASE pc = "deployment"
      BY <2>3, <3>2 DEF Apply
    <3>3. CASE pc = "configMap"
      BY <1>0, <2>2, <2>3, <3>3 DEF Apply, AppliedObjs, TypeInv, TypeOK
    <3> QED
      BY <2>3, <3>1, <3>2, <3>3 DEF Apply, ApplySteps
  <2>4. CASE Compare \/ Publish \/ DeleteAgentPods \/ DeleteControllerPods
             \/ NetworkStatusNotNeeded \/ UpdateNetworkStatus \/ Finish
    <3>1. pc # "daemonSet" /\ UNCHANGED objs
      BY <2>4 DEF Compare, Accepted, Publish, DeleteAgentPods, DeleteControllerPods,
         NetworkStatusNotNeeded, UpdateNetworkStatus, Finish
    <3> QED
      BY <2>2, <3>1
  <2> QED
    BY <1>6, <2>3, <2>4 DEF Works
<1>7. CASE NetworkGone
  BY <1>0, <1>7 DEF NetworkGone, UpdateNetworkStatusFails, CompleteInv, CrashInv,
     NetworkExists, TypeInv, LocalsOK
<1>8. CASE UNCHANGED vars
  BY <1>1, <1>8 DEF CompleteInv, vars, bounds
<1> QED
  BY <1>2, <1>3, <1>4, <1>5, <1>6, <1>7, <1>8

\* antreainstall_controller.go:120-127, 101-103: as long as nothing fails or crashes, the
\* objects in the cluster are those of the configuration that is remembered, however
\* edits and panics interleave with a reconciliation.
THEOREM ClusterCurrent ==
  ASSUME Nil \notin NetworkEdits
  PROVE  Spec => [](failures = 0 /\ restarts = 0 => ClusterMatchesApplied)
<1>1. Init => CompleteInv
  <2> SUFFICES ASSUME Init PROVE CompleteInv
    OBVIOUS
  <2>1. CrashInv
    BY CrashInit
  <2> QED
    BY <2>1 DEF Init, CompleteInv, DaemonSetFollows, ObjectNames
<1>2. CompleteInv => (failures = 0 /\ restarts = 0 => ClusterMatchesApplied)
  <2> SUFFICES ASSUME CompleteInv, failures = 0, restarts = 0, SettledClean,
                      appliedOper # Nil
               PROVE  /\ objs.configMap = Installed.configMap
                      /\ objs.deployment = Installed.deployment
                      /\ objs.daemonSet # Nil /\ objs.daemonSet.image = appliedOper.image
    BY DEF ClusterMatchesApplied
  <2>1. pc = "idle" /\ TypeInv /\ Matches(appliedOper)
    BY DEF SettledClean, Settled, CompleteInv, CrashInv, AppliedMatches, AfterDeployment
  <2>2. appliedOper \in FilledSpecs
    BY <2>1 DEF TypeInv, TypeOK
  <2>3. objs.deployment # Nil
    <3>1. PICK o \in OperNets : TRUE
      BY InstallAssumption DEF OperNets, Openshift
    <3>2. Rendered(appliedOper, o).deployment \in Deployments
      BY <2>2, <3>1, RenderedTyped
    <3>3. objs.deployment = Rendered(appliedOper, o).deployment
      BY <2>1, RenderedAlike DEF Matches
    <3> QED
      BY <3>2, <3>3, NilAssumption
  <2>4. objs.configMap = Installed.configMap /\ objs.deployment = Installed.deployment
    BY <2>1, RenderedAlike DEF Matches, Installed
  <2>5. objs.daemonSet # Nil /\ objs.daemonSet.image = objs.deployment.image
    BY <2>1, <2>3 DEF CompleteInv, DaemonSetFollows
  <2>6. objs.deployment.image = appliedOper.image
    BY <2>1 DEF Matches, Rendered
  <2> QED
    BY <2>4, <2>5, <2>6
<1>3. CompleteInv /\ [Next]_vars => CompleteInv'
  BY CompleteStep
<1> QED
  BY <1>1, <1>2, <1>3, PTL DEF Spec

-----------------------------------------------------------------------------
(***************************************************************************)
(* The edits.  Without a missing resource or a failed call, each way a     *)
(* reconciliation ends has applied the resource of its request, or queues  *)
(* the request again, so that nothing needs the excuse of a reported error.*)
(***************************************************************************)
NothingDeleted == Nil \notin InstallEdits \cup NetworkEdits \cup OperatorNetworkEdits

AllExist == cr # Nil /\ NetworkExists /\ (Openshift => opNet # Nil)

InstallKept ==
  pc # "down" /\ "install" \notin queue /\ req # "install" =>
    appliedOper \in {cr, FillConfigs(appliedCluster, cr)}

NetworkKept ==
  Openshift /\ pc # "down" /\ "cluster" \notin queue /\ req # "cluster" =>
    appliedCluster = net

EditsInv == AgreementInv /\ AllExist /\ (failures = 0 => InstallKept /\ NetworkKept)

\* What users do not delete, exists.
LEMMA AllStay ==
  ASSUME NothingDeleted
  PROVE  AllExist /\ [Next]_vars => AllExist'
<1> SUFFICES ASSUME AllExist, [Next]_vars PROVE cr' # Nil /\ (Openshift => opNet' # Nil)
  BY NetworkStays DEF AllExist, NothingDeleted
<1>1. CASE Users
  BY <1>1 DEF Users, WriteInstall, WriteNetwork, WriteOperatorNetwork, AllExist,
     NothingDeleted
<1>2. CASE UNCHANGED users
  BY <1>2 DEF users, AllExist
<1>3. Users \/ UNCHANGED users
  BY DEF vars, users, Next, Environment, Reconcile, Reporting, Silent,
     SpuriousEvent, StartAgentPods,
     StartControllerPods, Crash, Die, StartOperator, Ignore, Dequeue,
     GetNetworkFails, NetworkNotFound, NetworkUnchanged, GetNetwork,
     GetOperatorNetworkFails, OperatorNetworkNotFound, GetOperatorNetwork,
     GetInstallFails, InstallNotFound, InstallUnchanged, GetInstall,
     FillConfigsPanics, RejectConfig, GetAppliedConfigFails, Compare, Publish,
     PublishFails, Apply, ApplyFails, DeleteAgentPods, DeleteAgentPodsFails,
     DeleteControllerPods, DeleteControllerPodsFails, HasDefaultMTUChangePanics,
     NetworkStatusNotNeeded, UpdateNetworkStatus, UpdateNetworkStatusFails, Finish
<1> QED
  BY <1>1, <1>2, <1>3

\* Every step keeps what is remembered, or a request for what is not.
LEMMA EditsStep ==
  ASSUME NothingDeleted
  PROVE  EditsInv /\ [Next]_vars => EditsInv'
<1> SUFFICES ASSUME EditsInv, [Next]_vars, failures' = 0
             PROVE  (InstallKept /\ NetworkKept)'
  BY AgreementStep, AllStay DEF EditsInv
<1>1. /\ failures = 0
      /\ Moves \/ Surroundings \/ Deaths \/ Works \/ NetworkGone \/ UNCHANGED vars
  BY QuietSteps DEF EditsInv, AgreementInv
<1>2. InstallKept /\ NetworkKept /\ AllExist
  BY <1>1 DEF EditsInv
<1>3. TypeInv /\ FreshInstall /\ FreshNetwork
  BY DEF EditsInv, AgreementInv
<1> USE <1>2 DEF InstallKept, NetworkKept
<1>4. CASE Moves
  <2> USE DEF local, memory, users, Return, ReturnError, Done
  <2>1. CASE NetworkNotFound \/ OperatorNetworkNotFound \/ InstallNotFound
    BY <1>3, <2>1 DEF NetworkNotFound, OperatorNetworkNotFound, InstallNotFound,
       AllExist, NetworkExists, TypeInv, LocalsOK
  <2>2. CASE NetworkUnchanged
    BY <2>2, <1>3 DEF NetworkUnchanged, SameNetwork, TypeInv, LocalsOK
  <2>3. CASE GetNetwork \/ GetOperatorNetwork \/ GetInstall
    BY <2>3 DEF GetNetwork, GetOperatorNetwork, GetInstall
  <2>4. CASE InstallUnchanged
    BY <2>4, <1>3, InstallAssumption DEF InstallUnchanged, SameInstall, TypeInv, LocalsOK
  <2>5. CASE RejectConfig
    BY <2>5, <1>3 DEF RejectConfig, TypeInv, LocalsOK, TypeOK
  <2>6. CASE \E k \in Keys : Ignore(k)
    BY <2>6 DEF Ignore, WatchedKeys
  <2>7. CASE \E k \in WatchedKeys : Dequeue(k)
    BY <2>7, <1>3, InstallAssumption DEF Dequeue, TypeInv, LocalsOK
  <2> QED
    BY <1>4, <2>1, <2>2, <2>3, <2>4, <2>5, <2>6, <2>7 DEF Moves
<1>5. CASE Surroundings
  <2> USE DEF local, memory, users
  <2>1. CASE Users
    BY <2>1 DEF Users, WriteInstall, WriteNetwork, WriteOperatorNetwork, Notify
  <2>2. CASE \E k \in Keys : SpuriousEvent(k)
    BY <2>2 DEF SpuriousEvent
  <2>3. CASE StartAgentPods \/ StartControllerPods
    BY <2>3 DEF StartAgentPods, StartControllerPods
  <2>4. CASE StartOperator
    BY <2>4 DEF StartOperator, AllExist, NetworkExists
  <2> QED
    BY <1>5, <2>1, <2>2, <2>3, <2>4 DEF Surroundings
<1>6. CASE Deaths
  BY <1>6, DeathsLeave
<1>7. CASE Works
  <2> USE DEF local, memory, users
  <2>1. CASE Compare \/ Publish \/ Apply \/ DeleteAgentPods \/ DeleteControllerPods
             \/ NetworkStatusNotNeeded \/ UpdateNetworkStatus
    <3>1. /\ UNCHANGED <<users, req, appliedOper, appliedCluster>>
          /\ queue \subseteq queue' /\ pc # "down"
      BY <2>1 DEF Compare, Accepted, Publish, Apply, ApplySteps, DeleteAgentPods,
         DeleteControllerPods, NetworkStatusNotNeeded, UpdateNetworkStatus
    <3> QED
      BY <3>1
  <2>2. CASE Finish
    BY <1>3, <2>2 DEF Finish, Return, Done, FreshInstall, FreshNetwork, Decided,
       AllExist, NetworkExists
  <2> QED
    BY <1>7, <2>1, <2>2 DEF Works
<1>8. CASE NetworkGone
  BY <1>3, <1>8 DEF NetworkGone, UpdateNetworkStatusFails, AllExist,
     NetworkExists, TypeInv, LocalsOK
<1>9. CASE UNCHANGED vars
  BY <1>9 DEF vars, local, memory, users
<1> QED
  BY <1>1, <1>4, <1>5, <1>6, <1>7, <1>8, <1>9

\* antreainstall_controller.go:163, 234: no edit is lost by an early return for a
\* resource that has not changed, as long as no call fails and none is deleted: a worker
\* with nothing left to do has applied what users wrote, whatever they wrote before.
THEOREM EditsApplied ==
  ASSUME NothingDeleted
  PROVE  Spec => [](failures = 0 => EditsAreApplied)
<1>1. Init => EditsInv
  <2> SUFFICES ASSUME Init PROVE EditsInv
    OBVIOUS
  <2>1. AllExist
    BY InstallAssumption DEF Init, AllExist, NetworkExists, ClusterNets, OperNets, RawSpecs
  <2> QED
    BY <2>1, AgreementInit DEF Init, EditsInv, InstallKept, NetworkKept
<1>2. EditsInv => (failures = 0 => EditsAreApplied)
  <2> SUFFICES ASSUME EditsInv, failures = 0, Settled PROVE Agreed
    BY DEF EditsAreApplied
  <2>1. pc = "idle" /\ req = Nil /\ queue = {}
    BY DEF EditsInv, AgreementInv, TypeInv, LocalsOK, Settled
  <2>2. appliedOper \in {cr, FillConfigs(appliedCluster, cr)}
    BY <2>1, InstallAssumption DEF EditsInv, InstallKept
  <2>3. CASE Openshift
    BY <2>1, <2>2, <2>3, InstallAssumption DEF EditsInv, NetworkKept, Agreed
  <2>4. CASE ~ Openshift
    BY <2>2, <2>4, InstallAssumption DEF Agreed, EditsInv, AgreementInv, TypeInv, TypeOK,
       ClusterNets, Openshift
  <2> QED
    BY <2>3, <2>4
<1>3. EditsInv /\ [Next]_vars => EditsInv'
  BY EditsStep
<1> QED
  BY <1>1, <1>2, <1>3, PTL DEF Spec

-----------------------------------------------------------------------------
(***************************************************************************)
(* The status of the Network.  It shows the configuration remembered, or   *)
(* the one that is about to be.                                            *)
(***************************************************************************)
StatusShows(n, c) ==
  /\ netStatus # Nil
  /\ stringSliceEqual(netStatus.serviceNetwork, n.serviceNetwork)
  /\ stringSliceEqual(ClusterCIDRsOf(netStatus), ClusterCIDRsOf(n))
  /\ netStatus.mtu = c.agent.defaultMTU

StatusFollows ==
  /\ appliedCluster # Nil /\ pc # "finish" => StatusShows(appliedCluster, appliedOper)
  /\ pc = "finish" => StatusShows(clus, oper)

StatusInv == AgreementInv /\ NetworkExists /\ (failures = 0 => StatusFollows)

NoRangeRepeated ==
  \A n \in NetworkEdits \ {Nil} :
    Distinct(n.serviceNetwork) /\ Distinct(ClusterCIDRsOf(n))

\* Equality of ranges is one-sided, and yet a chain of equal lists is equal end to end.
LEMMA EqualTransitive ==
  ASSUME NEW a, NEW b, NEW c, stringSliceEqual(a, b), stringSliceEqual(b, c)
  PROVE  stringSliceEqual(a, c)
  BY DEF stringSliceEqual, inSlice

\* A list compares equal to itself, with repeated ranges too.
LEMMA EqualReflexive ==
  ASSUME NEW a PROVE stringSliceEqual(a, a)
  BY DEF stringSliceEqual, inSlice

\* A status that is not written again shows the new configuration too.
LEMMA NotNeededShows ==
  ASSUME ~ NetworkStatusNeeded, appliedCluster # Nil => StatusShows(appliedCluster, appliedOper)
  PROVE  StatusShows(clus, oper)
<1>1. /\ appliedCluster # Nil
      /\ stringSliceEqual(appliedCluster.serviceNetwork, clus.serviceNetwork)
      /\ stringSliceEqual(ClusterCIDRsOf(appliedCluster), ClusterCIDRsOf(clus))
      /\ appliedOper.agent.defaultMTU = oper.agent.defaultMTU
  BY DEF NetworkStatusNeeded, HasClusterNetworkConfigChange, HasDefaultMTUChange
<1> QED
  BY <1>1, EqualTransitive DEF StatusShows

\* A status that is written shows the configuration it was built from.
LEMMA WrittenShows ==
  ASSUME netStatus' = BuildNetworkStatus(clus, oper.agent.defaultMTU), netStatus' # Nil,
         UNCHANGED <<clus, oper>>
  PROVE  StatusShows(clus, oper)'
<1>1. /\ netStatus'.serviceNetwork = clus.serviceNetwork
      /\ netStatus'.clusterNetwork = clus.clusterNetwork
      /\ netStatus'.mtu = oper.agent.defaultMTU
  BY DEF BuildNetworkStatus
<1>2. ClusterCIDRsOf(netStatus') = ClusterCIDRsOf(clus)
  BY <1>1 DEF ClusterCIDRsOf
<1> QED
  BY <1>1, <1>2, EqualReflexive DEF StatusShows

\* Every step keeps the status with what it shows.
LEMMA StatusStep ==
  ASSUME Openshift, Nil \notin NetworkEdits
  PROVE  StatusInv /\ [Next]_vars => StatusInv'
<1> SUFFICES ASSUME StatusInv, [Next]_vars, failures' = 0 PROVE StatusFollows'
  BY AgreementStep, NetworkStays DEF StatusInv
<1>0. TypeInv
  BY DEF StatusInv, AgreementInv
<1>1. /\ StatusFollows
      /\ Moves \/ Surroundings \/ Deaths \/ Works \/ NetworkGone \/ UNCHANGED vars
  BY <1>0, QuietSteps DEF StatusInv
<1> USE <1>1 DEF StatusFollows
<1>2. CASE Moves
  BY <1>0, <1>2, MovesLeave DEF AtRest, StatusShows
<1>3. CASE Surroundings
  BY <1>3, SurroundingsLeave DEF local, memory, StatusShows
<1>4. CASE Deaths
  BY <1>4, DeathsLeave
<1>5. CASE Works
  <2>1. CASE Compare \/ Publish \/ Apply \/ DeleteAgentPods \/ DeleteControllerPods
    <3>1. /\ UNCHANGED <<netStatus, appliedOper, appliedCluster>>
          /\ pc # "finish" /\ pc' # "finish"
      BY <2>1 DEF Compare, Accepted, Publish, Apply, ApplySteps, DeleteAgentPods,
         DeleteControllerPods, AfterApply, memory
    <3> QED
      BY <3>1 DEF StatusShows
  <2>2. CASE NetworkStatusNotNeeded
    BY <2>2, NotNeededShows DEF NetworkStatusNotNeeded, local, StatusShows
  <2>3. CASE UpdateNetworkStatus
    <3>1. clus \in NetworkEdits \ {Nil} /\ oper \in FilledSpecs
      BY <1>0, <2>3 DEF UpdateNetworkStatus, TypeInv, LocalsOK, Decided, ClusterNets
    <3>2. netStatus' = BuildNetworkStatus(clus, oper.agent.defaultMTU) /\ netStatus' # Nil
      BY <2>3, <3>1, NetworkStatusTyped, NilAssumption DEF UpdateNetworkStatus
    <3>3. StatusShows(clus, oper)'
      BY <2>3, <3>2, WrittenShows DEF UpdateNetworkStatus, local
    <3> QED
      BY <2>3, <3>3 DEF UpdateNetworkStatus
  <2>4. CASE Finish
    BY <2>4 DEF Finish, Return, Done, StatusShows
  <2> QED
    BY <1>5, <2>1, <2>2, <2>3, <2>4 DEF Works
<1>6. CASE NetworkGone
  BY <1>6 DEF NetworkGone, StatusInv, NetworkExists
<1>7. CASE UNCHANGED vars
  BY <1>7 DEF vars, local, memory, StatusShows
<1> QED
  BY <1>1, <1>2, <1>3, <1>4, <1>5, <1>6, <1>7

\* A status that compares equal to the Network has its ranges.  The comparison is one-sided,
\* which is enough since the Network the status was built from repeats no range.
LEMMA StatusHasRanges ==
  ASSUME TypeOK, NoRangeRepeated, net \in NetworkEdits \ {Nil}, NEW c, StatusShows(net, c)
  PROVE  /\ Elements(netStatus.serviceNetwork) = Elements(net.serviceNetwork)
         /\ Elements(ClusterCIDRsOf(netStatus)) = Elements(ClusterCIDRsOf(net))
<1>1. PICK n \in NetworkEdits \ {Nil}, d \in FilledSpecs :
        netStatus = BuildNetworkStatus(n, d.agent.defaultMTU)
  BY DEF TypeOK, NetworkStatuses, StatusShows
<1>2. n \in NetworkSpecs /\ net \in NetworkSpecs
  BY InstallAssumption
<1>3. /\ netStatus.serviceNetwork = n.serviceNetwork
      /\ ClusterCIDRsOf(netStatus) = ClusterCIDRsOf(n)
  BY <1>1 DEF BuildNetworkStatus, ClusterCIDRsOf
<1>4. /\ Distinct(n.serviceNetwork) /\ Distinct(ClusterCIDRsOf(n))
      /\ stringSliceEqual(n.serviceNetwork, net.serviceNetwork)
      /\ stringSliceEqual(ClusterCIDRsOf(n), ClusterCIDRsOf(net))
  BY <1>1, <1>3, Zenon DEF NoRangeRepeated, StatusShows
<1>5. /\ n.serviceNetwork \in Seq(CIDRs) /\ ClusterCIDRsOf(n) \in Seq(CIDRs)
      /\ net.serviceNetwork \in Seq(CIDRs) /\ ClusterCIDRsOf(net) \in Seq(CIDRs)
  BY <1>2, RangesTyped, Zenon
<1>6. Elements(n.serviceNetwork) = Elements(net.serviceNetwork)
  BY <1>4, <1>5, OneSideIsEnough, Zenon
<1>7. Elements(ClusterCIDRsOf(n)) = Elements(ClusterCIDRsOf(net))
  BY <1>4, <1>5, OneSideIsEnough, Zenon
<1> QED
  BY <1>3, <1>6, <1>7, Zenon

\* antreainstall_controller.go:271-283, config.go:222-242: the comparisons that decide
\* whether the status of the Network is written again look from one list into the other
\* only, and yet the status has each range of the Network and no other, as long as no
\* call fails, the Network is not deleted and it never repeats a range.  (From <<A, A>> to
\* <<A, B>> they do miss the change.)
THEOREM NetworkStatusFollows ==
  ASSUME Openshift, Nil \notin NetworkEdits, NoRangeRepeated
  PROVE  Spec => [](failures = 0 => NetworkStatusCurrent)
<1>1. Init => StatusInv
  <2> SUFFICES ASSUME Init PROVE StatusInv
    OBVIOUS
  <2>1. NetworkExists
    BY DEF Init, NetworkExists, ClusterNets
  <2> QED
    BY <2>1, AgreementInit DEF Init, StatusInv, StatusFollows
<1>2. StatusInv => (failures = 0 => NetworkStatusCurrent)
  <2> SUFFICES ASSUME StatusInv, failures = 0, SettledClean, DesiredExists
               PROVE  /\ netStatus # Nil
                      /\ Elements(netStatus.serviceNetwork) = Elements(net.serviceNetwork)
                      /\ Elements(ClusterCIDRsOf(netStatus)) = Elements(ClusterCIDRsOf(net))
                      /\ netStatus.mtu = appliedOper.agent.defaultMTU
    BY DEF NetworkStatusCurrent
  <2>1. appliedCluster = net /\ net # Nil
    BY AgreementHolds DEF StatusInv, QuiescentAgreement, Agreed, DesiredExists
  <2>2. StatusShows(net, appliedOper)
    BY <2>1 DEF StatusInv, StatusFollows, SettledClean, Settled
  <2>3. TypeOK /\ net \in NetworkEdits \ {Nil}
    BY <2>1 DEF StatusInv, AgreementInv, TypeInv, TypeOK
  <2>4. netStatus # Nil /\ netStatus.mtu = appliedOper.agent.defaultMTU
    BY <2>2 DEF StatusShows
  <2> QED
    BY <2>2, <2>3, <2>4, StatusHasRanges, Zenon
<1>3. StatusInv /\ [Next]_vars => StatusInv'
  BY StatusStep
<1> QED
  BY <1>1, <1>2, <1>3, PTL DEF Spec
-----------------------------------------------------------------------------
(***************************************************************************)
(* The pods.  From the new ConfigMap until their deletion old pods may     *)
(* have the old text, if applyConfig is going to delete them.  It does     *)
(* when it remembers what it applied before and no image changes, so that  *)
(* this is about one image, and a process that lives on.                   *)
(***************************************************************************)
OneImage == \A c, d \in FilledSpecs : c.image = d.image

NeverPanics ==
  /\ \A n \in ClusterNets, s \in RawSpecs : ~ FillPanics(n, s)
  /\ \A c \in FilledSpecs : ~ MTUPanics(c)

DeleteSteps == {"deleteAgentPods", "deleteControllerPods"}

\* Nothing exists that is not remembered, before the first installation is done.
FirstInstallation ==
  appliedOper = Nil =>
    /\ pc \in AtRest \cup {"down", "publish", "configMap"} => objs.configMap = Nil
    /\ pc \in AtRest \cup {"down", "publish", "configMap", "deployment"} =>
         objs.deployment = Nil
    /\ pc \in AtRest \cup {"down", "publish"} \cup ApplySteps => objs.daemonSet = Nil

ChangeKnown ==
  appliedOper # Nil /\ pc \in {"publish"} \cup ApplySteps \cup DeleteSteps =>
    change = NeedApplyChange(appliedOper, oper)

PodsHaveWorkloads ==
  /\ agentPods # Nil => objs.daemonSet # Nil
  /\ controllerPods # Nil => objs.deployment # Nil

AgentsFollow ==
  agentPods # Nil =>
    \/ agentPods.agent = objs.configMap.agent /\ agentPods.cni = objs.configMap.cni
    \/ pc \in {"deployment", "daemonSet", "deleteAgentPods"} /\ Restarts(change.agent)

ControllersFollow ==
  controllerPods # Nil =>
    \/ controllerPods.controller = objs.configMap.controller
    \/ /\ pc \in {"deployment", "daemonSet"} \cup DeleteSteps
       /\ Restarts(change.controller)

PodsFollow ==
  FirstInstallation /\ ChangeKnown /\ PodsHaveWorkloads /\ AgentsFollow /\ ControllersFollow

PodsInv == CrashInv /\ (failures = 0 /\ restarts = 0 => PodsFollow)

\* The new ConfigMap leaves the pods as they are, or the steps after it delete them.
LEMMA ConfigMapWarns ==
  ASSUME OneImage, PodsInv, failures = 0, restarts = 0, Apply, pc = "configMap"
  PROVE  PodsFollow'
<1>1. TypeInv /\ PodsFollow /\ oper \in FilledSpecs
  BY DEF PodsInv, CrashInv, TypeInv, LocalsOK, Decided, ApplySteps
<1>2. /\ objs' = [objs EXCEPT !.configMap = Rendered(oper, opn).configMap]
      /\ pc' = "deployment"
      /\ UNCHANGED <<agentPods, controllerPods, appliedOper, oper, change>>
  BY DEF Apply, AppliedObjs, pods, local, memory
<1>3. /\ objs'.configMap = Rendered(oper, Nil).configMap
      /\ objs'.deployment = objs.deployment /\ objs'.daemonSet = objs.daemonSet
  BY <1>1, <1>2, RenderedAlike DEF TypeInv, TypeOK
<1>4. FirstInstallation' /\ ChangeKnown' /\ PodsHaveWorkloads'
  BY <1>1, <1>2, <1>3
  DEF PodsFollow, FirstInstallation, ChangeKnown, PodsHaveWorkloads, AtRest, ApplySteps
<1>5. CASE appliedOper = Nil
  <2>1. agentPods = Nil /\ controllerPods = Nil
    BY <1>1, <1>5 DEF PodsFollow, FirstInstallation, PodsHaveWorkloads, ApplySteps
  <2> QED
    BY <1>2, <1>4, <2>1 DEF PodsFollow, AgentsFollow, ControllersFollow
<1>6. CASE appliedOper # Nil
  <2>1. change = NeedApplyChange(appliedOper, oper)
    BY <1>1, <1>6 DEF PodsFollow, ChangeKnown, ApplySteps
  <2>2. appliedOper \in FilledSpecs
    BY <1>1, <1>6 DEF TypeInv, TypeOK
  <2>3. appliedOper.image = oper.image
    BY <1>1, <2>2 DEF OneImage
  <2>4. /\ ~ change.image
        /\ ~ change.agent => appliedOper.agent = oper.agent /\ appliedOper.cni = oper.cni
        /\ ~ change.controller => appliedOper.controller = oper.controller
        /\ change.agent \in BOOLEAN /\ change.controller \in BOOLEAN
    BY <1>6, <2>1, <2>3 DEF NeedApplyChange
  <2>5. objs.configMap = Rendered(appliedOper, Nil).configMap
    BY <1>6 DEF PodsInv, CrashInv, AppliedMatches, AfterDeployment, Matches
  <2>6. AgentsFollow'
    <3>1. CASE change.agent
      BY <1>2, <1>6, <2>4, <3>1 DEF AgentsFollow, Restarts
    <3>2. CASE ~ change.agent
      <4>1. /\ objs'.configMap.agent = objs.configMap.agent
            /\ objs'.configMap.cni = objs.configMap.cni
        BY <1>3, <2>4, <2>5, <3>2 DEF Rendered
      <4> QED
        BY <1>1, <1>2, <4>1 DEF PodsFollow, AgentsFollow
    <3> QED
      BY <3>1, <3>2
  <2>7. ControllersFollow'
    <3>1. CASE change.controller
      BY <1>2, <1>6, <2>4, <3>1 DEF ControllersFollow, Restarts
    <3>2. CASE ~ change.controller
      <4>1. objs'.configMap.controller = objs.configMap.controller
        BY <1>3, <2>4, <2>5, <3>2 DEF Rendered
      <4> QED
        BY <1>1, <1>2, <4>1 DEF PodsFollow, ControllersFollow, DeleteSteps
    <3> QED
      BY <3>1, <3>2
  <2> QED
    BY <1>4, <2>6, <2>7 DEF PodsFollow
<1> QED
  BY <1>5, <1>6

\* Pods start with the ConfigMap of that moment.
LEMMA StartsFollow ==
  ASSUME PodsFollow, StartAgentPods \/ StartControllerPods
  PROVE  PodsFollow'
<1>1. UNCHANGED <<objs, pc, change, oper, appliedOper>>
  BY DEF StartAgentPods, StartControllerPods, local, memory
<1>2. CASE StartAgentPods
  BY <1>1, <1>2 DEF StartAgentPods, AgentPodsOf, PodsFollow, FirstInstallation, ChangeKnown,
     PodsHaveWorkloads, AgentsFollow, ControllersFollow, Restarts
<1>3. CASE StartControllerPods
  BY <1>1, <1>3 DEF StartControllerPods, ControllerPodsOf, PodsFollow, FirstInstallation,
     ChangeKnown, PodsHaveWorkloads, AgentsFollow, ControllersFollow, Restarts
<1> QED
  BY <1>2, <1>3

\* Every step keeps the pods with the ConfigMap.
LEMMA PodsStep ==
  ASSUME Nil \notin NetworkEdits, OneImage, NeverPanics
  PROVE  PodsInv /\ [Next]_vars => PodsInv'
<1> SUFFICES ASSUME PodsInv, [Next]_vars, failures' = 0, restarts' = 0
             PROVE  PodsFollow'
  BY CrashStep DEF PodsInv
<1>0. TypeInv /\ CrashInv
  BY DEF PodsInv, CrashInv
<1>1. failures = 0 /\ restarts \in Nat
  BY <1>0, QuietSteps, InstallAssumption DEF TypeInv, TypeOK
<1>2. Moves \/ Surroundings \/ Deaths \/ Works \/ NetworkGone \/ UNCHANGED vars
  BY <1>0, QuietSteps
<1>3. restarts = 0 /\ PodsFollow /\ ~ Deaths
  <2>1. ~ FillConfigsPanics
    BY <1>0 DEF FillConfigsPanics, NeverPanics, TypeInv, LocalsOK
  <2>2. ~ HasDefaultMTUChangePanics
    BY <1>0 DEF HasDefaultMTUChangePanics, NeverPanics, TypeInv, LocalsOK, Decided
  <2>3. ~ Crash
    BY <1>1 DEF Crash
  <2>4. ASSUME Moves \/ Surroundings PROVE restarts = 0
    BY <1>0, <2>4, MovesLeave, SurroundingsLeave DEF bounds
  <2>5. ASSUME Works \/ NetworkGone \/ UNCHANGED vars PROVE restarts = 0
    BY <2>5 DEF Works, Compare, Publish, Apply, DeleteAgentPods, DeleteControllerPods,
       NetworkStatusNotNeeded, UpdateNetworkStatus, Finish, NetworkGone,
       UpdateNetworkStatusFails, vars, bounds
  <2>6. restarts = 0 /\ ~ Deaths
    BY <1>2, <2>1, <2>2, <2>3, <2>4, <2>5 DEF Deaths
  <2> QED
    BY <1>1, <2>6 DEF PodsInv
<1>4. CASE Moves
  <2>1. pc \in AtRest /\ pc' \in AtRest /\ UNCHANGED <<objs, agentPods, controllerPods, appliedOper>>
    BY <1>0, <1>4, MovesLeave DEF pods
  <2> QED
    BY <1>3, <2>1 DEF AtRest, PodsFollow, FirstInstallation, ChangeKnown, PodsHaveWorkloads,
       AgentsFollow, ControllersFollow, ApplySteps, DeleteSteps
<1>5. CASE Surroundings
  <2>1. CASE StartAgentPods \/ StartControllerPods
    BY <1>3, <2>1, StartsFollow
  <2>2. CASE Users \/ (\E k \in Keys : SpuriousEvent(k)) \/ StartOperator
    <3>1. /\ pc' = pc \/ (pc = "down" /\ pc' = "idle")
          /\ UNCHANGED <<objs, agentPods, controllerPods, change, oper, appliedOper>>
      BY <1>5, <2>2, SurroundingsLeave DEF local, memory, pods, Users, WriteInstall,
         WriteNetwork, WriteOperatorNetwork, SpuriousEvent, StartOperator
    <3> QED
      BY <1>3, <3>1 DEF AtRest, PodsFollow, FirstInstallation, ChangeKnown,
         PodsHaveWorkloads, AgentsFollow, ControllersFollow, ApplySteps, DeleteSteps,
         Restarts
  <2> QED
    BY <1>5, <2>1, <2>2 DEF Surroundings
<1>6. CASE Works
  <2>1. CASE Compare
    <3>1. /\ pc = "compare" /\ UNCHANGED <<objs, agentPods, controllerPods, appliedOper>>
          /\ change' = NeedApplyChange(getAppliedOperConfig, oper')
          /\ pc' \in {"publish", "updateNetworkStatus", "finish"}
          /\ change'.agent => pc' = "publish"
      BY <2>1 DEF Compare, Accepted, AfterApply, pods, memory
    <3>2. appliedOper = Nil => pc' = "publish"
      BY <1>3, <3>1 DEF PodsFollow, FirstInstallation, AtRest, getAppliedOperConfig,
         NeedApplyChange
    <3>3. FirstInstallation'
      BY <1>3, <3>1, <3>2 DEF PodsFollow, FirstInstallation, AtRest
    <3>4. ChangeKnown'
      BY <3>1 DEF ChangeKnown, getAppliedOperConfig
    <3> QED
      BY <1>3, <3>1, <3>3, <3>4 DEF PodsFollow, PodsHaveWorkloads, AgentsFollow,
         ControllersFollow, DeleteSteps
  <2>2. CASE Publish
    BY <1>3, <2>2 DEF Publish, pods, local, PodsFollow, FirstInstallation, ChangeKnown,
       PodsHaveWorkloads, AgentsFollow, ControllersFollow, ApplySteps, DeleteSteps, AtRest
  <2>3. CASE Apply
    <3>1. CASE pc = "configMap"
      BY <1>1, <1>3, <2>3, <3>1, ConfigMapWarns
    <3>2. CASE pc \in {"deployment", "daemonSet"}
      <4>1. /\ objs' = [objs EXCEPT ![pc] = Rendered(oper, opn)[pc]]
            /\ (pc = "deployment" /\ pc' = "daemonSet")
                 \/ (pc = "daemonSet" /\ pc' = "deleteAgentPods")
            /\ UNCHANGED <<agentPods, controllerPods, appliedOper, oper, change>>
        BY <2>3, <3>2 DEF Apply, AppliedObjs, pods, local, memory
      <4>2. /\ objs'.configMap = objs.configMap
            /\ objs'.deployment = objs.deployment \/ objs'.deployment # Nil
            /\ objs'.daemonSet = objs.daemonSet \/ objs'.daemonSet # Nil
            /\ pc = "deployment" => objs'.daemonSet = objs.daemonSet
        <5>1. oper \in FilledSpecs /\ opn \in OperNets
          BY <1>0, <3>2 DEF TypeInv, LocalsOK, Decided, ApplySteps
        <5>2. Rendered(oper, opn).deployment # Nil /\ Rendered(oper, opn).daemonSet # Nil
          BY <5>1, RenderedTyped, NilAssumption
        <5> QED
          BY <1>0, <4>1, <5>2 DEF TypeInv, TypeOK
      <4>3. FirstInstallation' /\ ChangeKnown' /\ PodsHaveWorkloads'
        BY <1>3, <4>1, <4>2 DEF PodsFollow, FirstInstallation, ChangeKnown,
           PodsHaveWorkloads, AtRest, ApplySteps, DeleteSteps
      <4>4. AgentsFollow' /\ ControllersFollow'
        BY <1>3, <4>1, <4>2 DEF PodsFollow, AgentsFollow, ControllersFollow, Restarts,
           DeleteSteps
      <4> QED
        BY <4>3, <4>4 DEF PodsFollow
    <3> QED
      BY <2>3, <3>1, <3>2 DEF Apply, ApplySteps
  <2>4. CASE DeleteAgentPods
    BY <1>3, <2>4 DEF DeleteAgentPods, local, memory, PodsFollow, FirstInstallation,
       ChangeKnown, PodsHaveWorkloads, AgentsFollow, ControllersFollow, Restarts,
       ApplySteps, DeleteSteps, AtRest
  <2>5. CASE DeleteControllerPods
    BY <1>3, <2>5 DEF DeleteControllerPods, AfterApply, local, memory, PodsFollow,
       FirstInstallation, ChangeKnown, PodsHaveWorkloads, AgentsFollow, ControllersFollow,
       Restarts, ApplySteps, DeleteSteps, AtRest
  <2>6. CASE NetworkStatusNotNeeded \/ UpdateNetworkStatus
    BY <1>3, <2>6 DEF NetworkStatusNotNeeded, UpdateNetworkStatus, pods, local, memory,
       PodsFollow, FirstInstallation, ChangeKnown, PodsHaveWorkloads, AgentsFollow,
       ControllersFollow, ApplySteps, DeleteSteps, AtRest
  <2>7. CASE Finish
    <3>1. oper \in FilledSpecs /\ appliedOper' = oper
      BY <1>0, <2>7 DEF Finish, TypeInv, LocalsOK, Decided
    <3>2. appliedOper' # Nil
      BY <3>1, NilAssumption
    <3> QED
      BY <1>3, <2>7, <3>2 DEF Finish, Return, Done, pods, PodsFollow, FirstInstallation,
         ChangeKnown, PodsHaveWorkloads, AgentsFollow, ControllersFollow, ApplySteps,
         DeleteSteps
  <2> QED
    BY <1>6, <2>1, <2>2, <2>3, <2>4, <2>5, <2>6, <2>7 DEF Works
<1>7. CASE NetworkGone
  BY <1>0, <1>7 DEF NetworkGone, UpdateNetworkStatusFails, CrashInv, NetworkExists,
     TypeInv, LocalsOK
<1>8. CASE UNCHANGED vars
  BY <1>3, <1>8 DEF vars, pods, local, memory, PodsFollow, FirstInstallation, ChangeKnown,
     PodsHaveWorkloads, AgentsFollow, ControllersFollow, Restarts
<1> QED
  BY <1>2, <1>3, <1>4, <1>5, <1>6, <1>7, <1>8

\* antreainstall_controller.go:129-145: whichever edits come between the ConfigMap and the
\* deletion of the pods, and whenever pods start on their own, no pod is left with a text
\* that has been replaced, as long as nothing fails, crashes or panics, one image is used,
\* and the Network is not deleted.
THEOREM PodsCurrent ==
  ASSUME Nil \notin NetworkEdits, OneImage, NeverPanics
  PROVE  Spec => [](failures = 0 /\ restarts = 0 => PodsPickUpChanges)
<1>1. Init => PodsInv
  <2> SUFFICES ASSUME Init PROVE PodsInv
    OBVIOUS
  <2>1. CrashInv
    BY CrashInit
  <2> QED
    BY <2>1 DEF Init, PodsInv, PodsFollow, FirstInstallation, ChangeKnown,
       PodsHaveWorkloads, AgentsFollow, ControllersFollow, ObjectNames
<1>2. PodsInv => (failures = 0 /\ restarts = 0 => PodsPickUpChanges)
  BY DEF PodsInv, PodsFollow, AgentsFollow, ControllersFollow, PodsPickUpChanges,
     SettledClean, Settled, DeleteSteps
<1>3. PodsInv /\ [Next]_vars => PodsInv'
  BY PodsStep
<1> QED
  BY <1>1, <1>2, <1>3, PTL DEF Spec
=============================================================================

------------------------- MODULE InstallReconciler -------------------------
(***************************************************************************)
(* AntreaInstallReconciler (controllers/antreainstall_controller.go): the  *)
(* single worker that carries the AntreaInstall resource, and on OpenShift *)
(* the cluster Network, into the objects of the Antrea installation.       *)
(*                                                                         *)
(* The API server is the state the users and the operator share.  One      *)
(* action of the worker is one call to it, with the local computation      *)
(* that follows, so that edits, crashes and pod restarts fall between any  *)
(* two calls.  A call that fails may nevertheless have taken effect.       *)
(***************************************************************************)
EXTENDS OperatorConfig, FiniteSets

CONSTANTS
  Platform,             \* SharedInfo.AntreaPlatform
  InstallEdits,         \* what users write as AntreaInstall spec, Nil to delete it
  NetworkEdits,         \* the same for the cluster Network ({} on Kubernetes)
  OperatorNetworkEdits, \* the same for the operator Network ({} on Kubernetes)
  MaxEdits,             \* bound: edits by users
  MaxFailures,          \* bound: calls that return an error
  MaxRestarts           \* bound: crashes of the operator process

ASSUME InstallAssumption ==
  /\ Platform \in {"kubernetes", "openshift"}
  /\ InstallEdits \subseteq OperSpecs \cup {Nil}
  /\ InstallEdits \ {Nil} # {}
  /\ NetworkEdits \subseteq NetworkSpecs \cup {Nil}
  /\ OperatorNetworkEdits \subseteq [disableMultiNetwork : BOOLEAN] \cup {Nil}
  /\ IF Platform = "openshift"
     THEN NetworkEdits \ {Nil} # {} /\ OperatorNetworkEdits \ {Nil} # {}
     ELSE NetworkEdits = {} /\ OperatorNetworkEdits = {}
  /\ Nil \notin OperSpecs \cup NetworkSpecs
  /\ Nil \notin {"install", "cluster"}
  /\ {MaxEdits, MaxFailures, MaxRestarts} \subseteq Nat

VARIABLES
  \* The API server, as users write it
  cr,              \* AntreaInstall antrea-operator/antrea-install, its spec
  net,             \* Network.config.openshift.io "cluster", its spec
  opNet,           \* Network.operator.openshift.io "cluster", its spec
  \* The API server, as the operator and the workload controllers write it
  objs,            \* the rendered objects that exist
  agentPods,       \* what the antrea-agent pods of a node were started with
  controllerPods,  \* what the antrea-controller pods were started with
  netStatus,       \* the status of the cluster Network
  \* The worker and its queue
  queue,           \* keys waiting to be reconciled
  pc,              \* the next API call of the worker
  req,             \* the key being reconciled
  clus, opn, oper, \* clusterConfig, operatorNetwork and operConfig as read
  change,          \* the result of NeedApplyChange
  \* The memory of the process
  failing,         \* the levels StatusManager holds a Degraded condition for
  appliedCluster,  \* r.AppliedClusterConfig
  appliedOper,     \* r.AppliedOperConfig
  published,       \* the specs in SharedInfo
  \* Counters of the bounds
  edits, failures, restarts

users  == <<cr, net, opNet>>
pods   == <<agentPods, controllerPods>>
local  == <<req, clus, opn, oper, change>>
memory == <<failing, appliedCluster, appliedOper, published>>
bounds == <<edits, failures, restarts>>
vars   == <<users, objs, pods, netStatus, queue, pc, local, memory, bounds>>

Openshift == Platform = "openshift"
WatchedKeys == IF Openshift THEN {"install", "cluster"} ELSE {"install"}
\* "other" is a watched object of another name: isOperatorRequest rejects it
Keys == WatchedKeys \cup {"other"}
NoChange == [agent |-> FALSE, controller |-> FALSE, image |-> FALSE]

ObjectNames == {"configMap", "deployment", "daemonSet"}

-----------------------------------------------------------------------------
\* Types.  The sets of derived values are images of the operators that make
\* them, over the finite sets of what users write.

RawSpecs    == InstallEdits \ {Nil}
ClusterNets == IF Openshift THEN NetworkEdits \ {Nil} ELSE {Nil}
OperNets    == IF Openshift THEN OperatorNetworkEdits \ {Nil} ELSE {Nil}
Inputs      == {i \in ClusterNets \X RawSpecs :
                  ~ FillPanics(i[1], i[2]) /\ Accepts(i[1], i[2])}
FilledSpecs == {FillConfigs(i[1], i[2]) : i \in Inputs}
Objects     == {Rendered(c, o) : c \in FilledSpecs, o \in OperNets}

ConfigMaps  == {r.configMap : r \in Objects}
Deployments == {r.deployment : r \in Objects}
DaemonSets  == {r.daemonSet : r \in Objects}

AgentPodsOf(configMap, daemonSet) ==
  [agent      |-> configMap.agent, cni |-> configMap.cni,
   image      |-> daemonSet.image, cniConfDir |-> daemonSet.cniConfDir]
ControllerPodsOf(configMap, deployment) ==
  [controller |-> configMap.controller, image |-> deployment.image]
WorkloadsOf(r) == [deployment |-> r.deployment, daemonSet |-> r.daemonSet]

AgentPods       == {AgentPodsOf(m, d) : m \in ConfigMaps, d \in DaemonSets}
ControllerPods  == {ControllerPodsOf(m, d) : m \in ConfigMaps, d \in Deployments}
Workloads       == {WorkloadsOf(r) : r \in Objects}
NetworkStatuses == {BuildNetworkStatus(n, c.agent.defaultMTU) :
                      n \in NetworkEdits \ {Nil}, c \in FilledSpecs}

ASSUME NilAssumption ==
  Nil \notin FilledSpecs \cup AgentPods \cup ControllerPods \cup Workloads
             \cup Deployments \cup DaemonSets \cup NetworkStatuses

ApplySteps == {"configMap", "deployment", "daemonSet"}
Steps == {"down", "idle", "getNetwork", "getOperatorNetwork", "getInstall",
          "compare", "publish", "deleteAgentPods", "deleteControllerPods",
          "updateNetworkStatus", "finish"} \cup ApplySteps

\* Type invariant: every variable stays in its domain.
TypeOK ==
  /\ cr \in RawSpecs \cup {Nil}
  /\ net \in NetworkEdits \cup {Nil}
  /\ opNet \in OperatorNetworkEdits \cup {Nil}
  /\ objs \in [configMap  : ConfigMaps \cup {Nil},
               deployment : Deployments \cup {Nil},
               daemonSet  : DaemonSets \cup {Nil}]
  /\ agentPods \in AgentPods \cup {Nil}
  /\ controllerPods \in ControllerPods \cup {Nil}
  /\ netStatus \in NetworkStatuses \cup {Nil}
  /\ queue \in SUBSET Keys
  /\ pc \in Steps
  /\ req \in WatchedKeys \cup {Nil}
  /\ clus \in ClusterNets \cup {Nil}
  /\ opn \in OperNets \cup {Nil}
  /\ oper \in RawSpecs \cup FilledSpecs \cup {Nil}
  /\ change \in [agent : BOOLEAN, controller : BOOLEAN, image : BOOLEAN]
  /\ failing \in SUBSET {"cluster", "operator"}
  /\ appliedCluster \in ClusterNets \cup {Nil}
  /\ appliedOper \in FilledSpecs \cup {Nil}
  /\ published \in Workloads \cup {Nil}
  /\ edits \in 0..MaxEdits
  /\ failures \in 0..MaxFailures
  /\ restarts \in 0..MaxRestarts

-----------------------------------------------------------------------------
\* Helpers.

\* An event of an informer: keys are queued without duplicates, and a key
\* that is being reconciled can be queued again.
Notify(key) == queue' = IF pc = "down" THEN queue ELSE queue \cup {key}

\* The end of a call to Reconcile.
Done ==
  /\ pc' = "idle"
  /\ req' = Nil /\ clus' = Nil /\ opn' = Nil /\ oper' = Nil
  /\ change' = NoChange

Return == Done /\ UNCHANGED queue

\* Reconcile returns an error: controller-runtime queues the key again.
ReturnError == Done /\ queue' = queue \cup {req}

SetDegraded(level) == failing' = failing \cup {level}

\* A call returns an error.
Fault ==
  /\ failures < MaxFailures
  /\ failures' = failures + 1
  /\ UNCHANGED <<edits, restarts>>

\* The memory of a process that has just started.
Wiped ==
  /\ failing' = {}
  /\ appliedCluster' = Nil
  /\ appliedOper' = Nil
  /\ published' = Nil

-----------------------------------------------------------------------------
\* Init: the operator is deployed for the first time.
Init ==
  /\ cr \in RawSpecs
  /\ net \in ClusterNets
  /\ opNet \in OperNets
  /\ objs = [o \in ObjectNames |-> Nil]
  /\ agentPods = Nil
  /\ controllerPods = Nil
  /\ netStatus = Nil
  /\ queue = {}
  /\ pc = "down"
  /\ req = Nil /\ clus = Nil /\ opn = Nil /\ oper = Nil
  /\ change = NoChange
  /\ failing = {}
  /\ appliedCluster = Nil
  /\ appliedOper = Nil
  /\ published = Nil
  /\ edits = 0
  /\ failures = 0
  /\ restarts = 0

-----------------------------------------------------------------------------
\* The environment: users.

WriteInstall(s) ==
  /\ edits < MaxEdits
  /\ s # cr
  /\ cr' = s
  /\ Notify("install")
  /\ edits' = edits + 1
  /\ UNCHANGED <<net, opNet, objs, pods, netStatus, pc, local, memory,
                 failures, restarts>>

\* The status of a deleted Network goes with it.
WriteNetwork(n) ==
  /\ edits < MaxEdits
  /\ n # net
  /\ net' = n
  /\ netStatus' = IF n = Nil THEN Nil ELSE netStatus
  /\ Notify("cluster")
  /\ edits' = edits + 1
  /\ UNCHANGED <<cr, opNet, objs, pods, pc, local, memory, failures, restarts>>

\* SetupWithManager does not watch Network.operator.openshift.io.
WriteOperatorNetwork(o) ==
  /\ edits < MaxEdits
  /\ o # opNet
  /\ opNet' = o
  /\ edits' = edits + 1
  /\ UNCHANGED <<cr, net, objs, pods, netStatus, queue, pc, local, memory,
                 failures, restarts>>

\* An event without a change of spec: a status update, a resync, or an
\* object the operator does not handle.
SpuriousEvent(key) ==
  /\ pc # "down"
  /\ key \notin queue
  /\ key = "install" => cr # Nil
  /\ key = "cluster" => net # Nil
  /\ queue' = queue \cup {key}
  /\ UNCHANGED <<users, objs, pods, netStatus, pc, local, memory, bounds>>

\* The environment: kubelets and workload controllers.  Pods start, at a
\* rollout, after a deletion or for reasons of their own, with the current
\* template and read the ConfigMap that exists at that moment.
StartAgentPods ==
  /\ objs.configMap # Nil /\ objs.daemonSet # Nil
  /\ agentPods' = AgentPodsOf(objs.configMap, objs.daemonSet)
  /\ agentPods' # agentPods
  /\ UNCHANGED <<users, objs, controllerPods, netStatus, queue, pc, local,
                 memory, bounds>>

StartControllerPods ==
  /\ objs.configMap # Nil /\ objs.deployment # Nil
  /\ controllerPods' = ControllerPodsOf(objs.configMap, objs.deployment)
  /\ controllerPods' # controllerPods
  /\ UNCHANGED <<users, objs, agentPods, netStatus, queue, pc, local, memory,
                 bounds>>

-----------------------------------------------------------------------------
\* The process.

\* sharedinfo.New exits until the AntreaInstall resource exists.  The
\* informers then deliver every existing object.
StartOperator ==
  /\ pc = "down"
  /\ cr # Nil
  /\ pc' = "idle"
  /\ queue' = {"install"} \cup (IF net = Nil THEN {} ELSE {"cluster"})
  /\ UNCHANGED <<users, objs, pods, netStatus, local, memory, bounds>>

Die ==
  /\ pc' = "down"
  /\ queue' = {}
  /\ req' = Nil /\ clus' = Nil /\ opn' = Nil /\ oper' = Nil
  /\ change' = NoChange
  /\ Wiped
  /\ UNCHANGED <<users, objs, pods, netStatus>>

Crash ==
  /\ pc # "down"
  /\ restarts < MaxRestarts
  /\ Die
  /\ restarts' = restarts + 1
  /\ UNCHANGED <<edits, failures>>

-----------------------------------------------------------------------------
\* Reconcile, up to the call of applyConfig.

\* A key that is none of the operator's own returns at once.
Ignore(key) ==
  /\ pc = "idle"
  /\ key \in queue \ WatchedKeys
  /\ queue' = queue \ {key}
  /\ UNCHANGED <<users, objs, pods, netStatus, pc, local, memory, bounds>>

Dequeue(key) ==
  /\ pc = "idle"
  /\ key \in queue \cap WatchedKeys
  /\ queue' = queue \ {key}
  /\ req' = key
  /\ pc' = IF Openshift THEN "getNetwork" ELSE "getInstall"
  /\ UNCHANGED <<users, objs, pods, netStatus, clus, opn, oper, change, memory,
                 bounds>>

GetNetworkFails ==
  /\ pc = "getNetwork"
  /\ Fault
  /\ SetDegraded("cluster")
  /\ ReturnError
  /\ UNCHANGED <<users, objs, pods, netStatus, appliedCluster, appliedOper,
                 published>>

NetworkNotFound ==
  /\ pc = "getNetwork"
  /\ net = Nil
  /\ SetDegraded("cluster")
  /\ Return
  /\ UNCHANGED <<users, objs, pods, netStatus, appliedCluster, appliedOper,
                 published, bounds>>

\* Mutant: the name of the request is not looked at.
SameNetwork_AnyRequest == appliedCluster # Nil /\ net = appliedCluster

SameNetwork == req = "cluster" /\ appliedCluster # Nil /\ net = appliedCluster

NetworkUnchanged ==
  /\ pc = "getNetwork"
  /\ SameNetwork
  /\ Return
  /\ UNCHANGED <<users, objs, pods, netStatus, memory, bounds>>

GetNetwork ==
  /\ pc = "getNetwork"
  /\ net # Nil /\ ~ SameNetwork
  /\ clus' = net
  /\ pc' = "getOperatorNetwork"
  /\ UNCHANGED <<users, objs, pods, netStatus, queue, req, opn, oper, change,
                 memory, bounds>>

\* The only error path that reports nothing.
GetOperatorNetworkFails ==
  /\ pc = "getOperatorNetwork"
  /\ Fault
  /\ ReturnError
  /\ UNCHANGED <<users, objs, pods, netStatus, memory>>

OperatorNetworkNotFound ==
  /\ pc = "getOperatorNetwork"
  /\ opNet = Nil
  /\ SetDegraded("operator")
  /\ Return
  /\ UNCHANGED <<users, objs, pods, netStatus, appliedCluster, appliedOper,
                 published, bounds>>

GetOperatorNetwork ==
  /\ pc = "getOperatorNetwork"
  /\ opNet # Nil
  /\ opn' = opNet
  /\ pc' = "getInstall"
  /\ UNCHANGED <<users, objs, pods, netStatus, queue, req, clus, oper, change,
                 memory, bounds>>

\* Mutant: an error is taken for a missing resource.
GetInstallFails_Dropped ==
  /\ pc = "getInstall"
  /\ Fault
  /\ Return
  /\ UNCHANGED <<users, objs, pods, netStatus, memory>>

GetInstallFails ==
  /\ pc = "getInstall"
  /\ Fault
  /\ SetDegraded("operator")
  /\ ReturnError
  /\ UNCHANGED <<users, objs, pods, netStatus, appliedCluster, appliedOper,
                 published>>

InstallNotFound ==
  /\ pc = "getInstall"
  /\ cr = Nil
  /\ SetDegraded("cluster")
  /\ Return
  /\ UNCHANGED <<users, objs, pods, netStatus, appliedCluster, appliedOper,
                 published, bounds>>

\* Mutant: only the images are compared.
SameInstall_ImageOnly ==
  /\ req = "install" /\ appliedOper # Nil
  /\ cr # Nil /\ cr.image \in {NoImage, appliedOper.image}

SameInstall == req = "install" /\ appliedOper # Nil /\ cr = appliedOper

InstallUnchanged ==
  /\ pc = "getInstall"
  /\ SameInstall
  /\ Return
  /\ UNCHANGED <<users, objs, pods, netStatus, memory, bounds>>

GetInstall ==
  /\ pc = "getInstall"
  /\ cr # Nil /\ ~ SameInstall
  /\ oper' = cr
  /\ pc' = "compare"
  /\ UNCHANGED <<users, objs, pods, netStatus, queue, req, clus, opn, change,
                 memory, bounds>>

-----------------------------------------------------------------------------
\* applyConfig.

\* The worker reads the ConfigMap and the Deployment only when it does not
\* remember what it applied.
getAppliedOperConfig ==
  IF appliedOper # Nil THEN appliedOper
  ELSE IF objs.configMap = Nil \/ objs.deployment = Nil THEN Nil
  ELSE ReadBack(objs.configMap, objs.deployment)

AfterApply == IF Openshift THEN "updateNetworkStatus" ELSE "finish"

FillConfigsPanics ==
  /\ pc = "compare"
  /\ FillPanics(clus, oper)
  /\ Die
  /\ UNCHANGED bounds

\* Mutant: the rejection is only logged.
RejectConfig_Unreported ==
  /\ pc = "compare"
  /\ ~ FillPanics(clus, oper)
  /\ ~ Accepts(clus, oper)
  /\ ReturnError
  /\ UNCHANGED <<users, objs, pods, netStatus, memory, bounds>>

RejectConfig ==
  /\ pc = "compare"
  /\ ~ FillPanics(clus, oper)
  /\ ~ Accepts(clus, oper)
  /\ SetDegraded("operator")
  /\ ReturnError
  /\ UNCHANGED <<users, objs, pods, netStatus, appliedCluster, appliedOper,
                 published, bounds>>

Accepted ==
  /\ pc = "compare"
  /\ ~ FillPanics(clus, oper)
  /\ Accepts(clus, oper)

GetAppliedConfigFails ==
  /\ Accepted
  /\ appliedOper = Nil
  /\ Fault
  /\ SetDegraded("operator")
  /\ ReturnError
  /\ UNCHANGED <<users, objs, pods, netStatus, appliedCluster, appliedOper,
                 published>>

\* Mutant: the defaults are filled in a copy.
Compare_FillsCopy ==
  /\ Accepted
  /\ change' = NeedApplyChange(getAppliedOperConfig, FillConfigs(clus, oper))
  /\ pc' = IF change'.agent \/ change'.controller THEN "publish" ELSE AfterApply
  /\ UNCHANGED <<users, objs, pods, netStatus, queue, req, clus, opn, oper,
                 memory, bounds>>

Compare ==
  /\ Accepted
  /\ oper' = FillConfigs(clus, oper)
  /\ change' = NeedApplyChange(getAppliedOperConfig, oper')
  /\ pc' = IF change'.agent \/ change'.controller THEN "publish" ELSE AfterApply
  /\ UNCHANGED <<users, objs, pods, netStatus, queue, req, clus, opn, memory,
                 bounds>>

\* Mutant: SharedInfo is only filled once.
Publish_Once ==
  /\ pc = "publish"
  /\ published' = IF published = Nil THEN WorkloadsOf(Rendered(oper, opn))
                  ELSE published
  /\ pc' = "configMap"
  /\ UNCHANGED <<users, objs, pods, netStatus, queue, local, failing,
                 appliedCluster, appliedOper, bounds>>

\* updateStatusManagerAndSharedInfo, under the lock of SharedInfo, which the
\* worker holds from here to the end of applyConfig.
Publish ==
  /\ pc = "publish"
  /\ published' = WorkloadsOf(Rendered(oper, opn))
  /\ pc' = "configMap"
  /\ UNCHANGED <<users, objs, pods, netStatus, queue, local, failing,
                 appliedCluster, appliedOper, bounds>>

\* The manifest cannot be rendered, it lacks a workload, or an owner cannot be
\* set: nothing is published or applied.
PublishFails ==
  /\ pc = "publish"
  /\ Fault
  /\ SetDegraded("operator")
  /\ ReturnError
  /\ UNCHANGED <<users, objs, pods, netStatus, appliedCluster, appliedOper,
                 published>>

\* Mutant: the manifest lists the ConfigMap last.
AppliedObjs_ConfigMapLast ==
  LET o == CASE pc = "configMap" -> "deployment"
             [] pc = "deployment" -> "daemonSet"
             [] pc = "daemonSet" -> "configMap"
  IN  [objs EXCEPT ![o] = Rendered(oper, opn)[o]]

AppliedObjs == [objs EXCEPT ![pc] = Rendered(oper, opn)[pc]]

\* The objects are applied in the order of the manifest.
Apply ==
  /\ pc \in ApplySteps
  /\ objs' = AppliedObjs
  /\ pc' = CASE pc = "configMap"  -> "deployment"
             [] pc = "deployment" -> "daemonSet"
             [] pc = "daemonSet"  -> "deleteAgentPods"
  /\ UNCHANGED <<users, pods, netStatus, queue, local, memory, bounds>>

\* Mutant: the error is logged and the request forgotten.
ApplyFails_Swallowed ==
  /\ pc \in ApplySteps
  /\ Fault
  /\ objs' \in {objs, AppliedObjs}
  /\ Return
  /\ UNCHANGED <<users, pods, netStatus, memory>>

ApplyFails ==
  /\ pc \in ApplySteps
  /\ Fault
  /\ objs' \in {objs, AppliedObjs}
  /\ SetDegraded("operator")
  /\ ReturnError
  /\ UNCHANGED <<users, pods, netStatus, appliedCluster, appliedOper, published>>

\* Old pods are deleted when their text changes and no rollout replaces them.
Restarts(changed) == appliedOper # Nil /\ changed /\ ~ change.image

DeleteAgentPods ==
  /\ pc = "deleteAgentPods"
  /\ agentPods' = IF Restarts(change.agent) THEN Nil ELSE agentPods
  /\ pc' = "deleteControllerPods"
  /\ UNCHANGED <<users, objs, controllerPods, netStatus, queue, local, memory,
                 bounds>>

DeleteAgentPodsFails ==
  /\ pc = "deleteAgentPods"
  /\ Restarts(change.agent)
  /\ Fault
  /\ agentPods' \in {agentPods, Nil}
  /\ SetDegraded("operator")
  /\ ReturnError
  /\ UNCHANGED <<users, objs, controllerPods, netStatus, appliedCluster,
                 appliedOper, published>>

\* Mutant: the change of the agent decides for the controller too.
DeleteControllerPods_AgentChange ==
  /\ pc = "deleteControllerPods"
  /\ controllerPods' = IF Restarts(change.agent) THEN Nil ELSE controllerPods
  /\ pc' = AfterApply
  /\ UNCHANGED <<users, objs, agentPods, netStatus, queue, local, memory, bounds>>

DeleteControllerPods ==
  /\ pc = "deleteControllerPods"
  /\ controllerPods' = IF Restarts(change.controller) THEN Nil ELSE controllerPods
  /\ pc' = AfterApply
  /\ UNCHANGED <<users, objs, agentPods, netStatus, queue, local, memory, bounds>>

DeleteControllerPodsFails ==
  /\ pc = "deleteControllerPods"
  /\ Restarts(change.controller)
  /\ Fault
  /\ controllerPods' \in {controllerPods, Nil}
  /\ SetDegraded("operator")
  /\ ReturnError
  /\ UNCHANGED <<users, objs, agentPods, netStatus, appliedCluster,
                 appliedOper, published>>

-----------------------------------------------------------------------------
\* The end of Reconcile.

HasDefaultMTUChangePanics ==
  /\ pc = "updateNetworkStatus"
  /\ MTUPanics(oper)
  /\ Die
  /\ UNCHANGED bounds

NetworkStatusNeeded ==
  \/ HasClusterNetworkConfigChange(appliedCluster, clus)
  \/ HasDefaultMTUChange(appliedOper, oper)

NetworkStatusNotNeeded ==
  /\ pc = "updateNetworkStatus"
  /\ ~ MTUPanics(oper)
  /\ ~ NetworkStatusNeeded
  /\ pc' = "finish"
  /\ UNCHANGED <<users, objs, pods, netStatus, queue, local, memory, bounds>>

\* Writing the status of the Network is an event of the watched Network.
UpdateNetworkStatus ==
  /\ pc = "updateNetworkStatus"
  /\ ~ MTUPanics(oper)
  /\ NetworkStatusNeeded
  /\ net # Nil
  /\ netStatus' = BuildNetworkStatus(clus, oper.agent.defaultMTU)
  /\ queue' = queue \cup {"cluster"}
  /\ pc' = "finish"
  /\ UNCHANGED <<users, objs, pods, local, memory, bounds>>

\* Also when the Network has been deleted since it was read.
UpdateNetworkStatusFails ==
  /\ pc = "updateNetworkStatus"
  /\ ~ MTUPanics(oper)
  /\ NetworkStatusNeeded
  /\ IF net = Nil
     THEN UNCHANGED <<netStatus, bounds>>
     ELSE /\ Fault
          /\ netStatus' \in
               {netStatus, BuildNetworkStatus(clus, oper.agent.defaultMTU)}
  /\ SetDegraded("cluster")
  /\ ReturnError
  /\ UNCHANGED <<users, objs, pods, appliedCluster, appliedOper, published>>

\* SetNotDegraded at both levels, then the applied configuration is kept.
Finish ==
  /\ pc = "finish"
  /\ failing' = {}
  /\ appliedCluster' = clus
  /\ appliedOper' = oper
  /\ Return
  /\ UNCHANGED <<users, objs, pods, netStatus, published, bounds>>

-----------------------------------------------------------------------------
\* One Reconcile, without the choice of the key.  Its steps call StatusManager,
\* or they do not.
Reporting ==
  \/ GetNetworkFails \/ NetworkNotFound \/ OperatorNetworkNotFound
  \/ GetInstallFails \/ InstallNotFound
  \/ RejectConfig \/ GetAppliedConfigFails
  \/ Publish \/ PublishFails \/ ApplyFails
  \/ DeleteAgentPodsFails \/ DeleteControllerPodsFails
  \/ UpdateNetworkStatusFails
  \/ Finish

Silent ==
  \/ NetworkUnchanged \/ GetNetwork
  \/ GetOperatorNetworkFails \/ GetOperatorNetwork
  \/ InstallUnchanged \/ GetInstall
  \/ FillConfigsPanics \/ Compare
  \/ Apply
  \/ DeleteAgentPods \/ DeleteControllerPods
  \/ HasDefaultMTUChangePanics \/ NetworkStatusNotNeeded
  \/ UpdateNetworkStatus

Reconcile == Reporting \/ Silent

Users ==
  \/ \E s \in InstallEdits : WriteInstall(s)
  \/ \E n \in NetworkEdits : WriteNetwork(n)
  \/ \E o \in OperatorNetworkEdits : WriteOperatorNetwork(o)

Environment ==
  \/ Users
  \/ \E k \in Keys : SpuriousEvent(k)
  \/ StartAgentPods
  \/ StartControllerPods
  \/ Crash

Next ==
  \/ Environment
  \/ StartOperator
  \/ \E k \in Keys : Ignore(k)
  \/ \E k \in WatchedKeys : Dequeue(k)
  \/ Reconcile

Spec == Init /\ [][Next]_vars

(***************************************************************************)
(* The process is restarted whenever it is down, the worker takes its next *)
(* step, and the work queue, first in first out, starves no key.  Nothing  *)
(* is assumed of users, of failures or of pods.                            *)
(***************************************************************************)
Fairness ==
  /\ WF_vars(StartOperator)
  /\ WF_vars(Reconcile)
  /\ \A k \in WatchedKeys : SF_vars(Dequeue(k))

FairSpec == Spec /\ Fairness

-----------------------------------------------------------------------------
(***************************************************************************)
(* Properties.                                                             *)
(***************************************************************************)

\* The worker has nothing left to do and reports no error.
Settled == pc = "idle" /\ queue = {}
SettledClean == Settled /\ failing = {}

DesiredExists == cr # Nil /\ (Openshift => net # Nil)

Acceptable(s)   == ~ FillPanics(net, s) /\ Accepts(net, s)
Unacceptable(s) == ~ FillPanics(net, s) /\ ~ Accepts(net, s)

\* The memory of the process is the configuration users asked for.
Agreed ==
  /\ appliedOper \in {cr, FillConfigs(net, cr)}
  /\ appliedCluster = net

Installed == Rendered(appliedOper, opNet)

\* A settled worker that reports no error remembers exactly what users wrote:
\* no edit is dropped in silence by an early return of Reconcile or
\* fetchAntreaInstall, whatever fails, crashes or is edited meanwhile.
QuiescentAgreement == SettledClean /\ DesiredExists => Agreed

\* The ConfigMap, the Deployment and the image of the DaemonSet are those of
\* the configuration applyConfig is remembered to have applied.
ClusterMatchesApplied ==
  SettledClean /\ appliedOper # Nil =>
    /\ objs.configMap = Installed.configMap
    /\ objs.deployment = Installed.deployment
    /\ objs.daemonSet # Nil /\ objs.daemonSet.image = appliedOper.image

\* The part of it that crashes between any two steps of applyConfig leave
\* intact, as long as no call fails: what getAppliedOperConfig reads back was
\* applied by then.
CrashSafeObjects ==
  failures = 0 /\ SettledClean /\ appliedOper # Nil =>
    /\ objs.configMap = Installed.configMap
    /\ objs.deployment = Installed.deployment

\* Every object of the installation exists once the operator reports success.
InstallComplete ==
  SettledClean /\ appliedOper # Nil =>
    \A o \in ObjectNames : objs[o] # Nil

\* The pods that run were started with the configuration, or a rollout of
\* their workload is still to replace them.
PodsPickUpChanges ==
  SettledClean /\ objs.daemonSet # Nil =>
    /\ agentPods # Nil /\ agentPods.image = objs.daemonSet.image =>
         agentPods.agent = objs.configMap.agent /\ agentPods.cni = objs.configMap.cni
    /\ controllerPods # Nil /\ controllerPods.image = objs.deployment.image =>
         controllerPods.controller = objs.configMap.controller

\* What PodReconciler recreates deleted workloads from is what was applied.
SharedInfoIsCurrent ==
  SettledClean /\ published # Nil =>
    /\ published.deployment = objs.deployment
    /\ published.daemonSet = objs.daemonSet

\* antreainstall_controller.go:271-283: the status of the cluster Network has the ranges
\* of its spec, each of them and no others, and the MTU of the agents, although it is
\* written only when a comparison of lists shows a change.
NetworkStatusCurrent ==
  SettledClean /\ DesiredExists =>
    /\ netStatus # Nil
    /\ Elements(netStatus.serviceNetwork) = Elements(net.serviceNetwork)
    /\ Elements(ClusterCIDRsOf(netStatus)) = Elements(ClusterCIDRsOf(net))
    /\ netStatus.mtu = appliedOper.agent.defaultMTU

\* An edit is never forgotten: it is applied, waits to be, or is impossible.
EditsAreApplied ==
  Settled /\ DesiredExists /\ (Openshift => opNet # Nil) /\ Acceptable(cr) => Agreed

\* A Degraded condition goes away with its cause.
DegradedClears ==
  Settled /\ DesiredExists /\ Agreed => failing = {}

\* No step disturbs the pods, by a new template or by deleting them, before
\* the ConfigMap they will read at their next start is the new one.
ConfigMapComesFirst ==
  [][ \/ objs'.daemonSet # objs.daemonSet
      \/ objs'.deployment # objs.deployment
      \/ agentPods # Nil /\ agentPods' = Nil
      \/ controllerPods # Nil /\ controllerPods' = Nil
      => objs.configMap = Rendered(oper, opn).configMap ]_vars

\* A configuration that stays is applied, or the failure to apply it is
\* reported, infinitely often after every edit.
EditsAreHandled ==
  \A s \in RawSpecs :
    cr = s ~> \/ cr # s
              \/ appliedOper \in {s, FillConfigs(appliedCluster, s)}
              \/ failing # {}

\* A configuration that is not acceptable and stays is reported for good,
\* however many events, restarts and failed calls happen: no early return of
\* Reconcile comes before its rejection.
InvalidConfigStaysReported ==
  \A s \in RawSpecs :
    <>[](cr = s /\ (Openshift => net # Nil) /\ Unacceptable(s)) => <>[](failing # {})
=============================================================================

------------------------------- MODULE Operator -------------------------------
(***************************************************************************)
(* The operator process: AntreaInstallReconciler composed with             *)
(* PodReconciler (controllers/pod_controller.go), each with a worker of    *)
(* its own.  They share the cluster, SharedInfo with its lock, and         *)
(* StatusManager with its mutex.                                           *)
(*                                                                         *)
(* The install reconciler holds the lock of SharedInfo from the            *)
(* publication to the end of applyConfig; the pod reconciler holds it      *)
(* while it looks at a workload and recreates it, and holds the mutex of   *)
(* StatusManager during the API calls of SetFromPods.  Neither lock is a   *)
(* variable: who holds it follows from where the two workers are.          *)
(*                                                                         *)
(* Pods of Antrea are not started here, since the pod reconciler watches   *)
(* workloads only, and users send no events without a change, which only   *)
(* meet early returns; StatusManager has a module of its own, of which     *)
(* this one keeps the mutex and the failing levels.                        *)
(***************************************************************************)
EXTENDS InstallReconciler

CONSTANTS
  MaxDeletions,    \* bound: workloads deleted by users
  MaxDisturbances  \* bound: deletions, failed calls and crashes together

ASSUME DisturbanceAssumption == {MaxDeletions, MaxDisturbances} \subseteq Nat
ASSUME WorkloadAssumption == Nil \notin {"deployment", "daemonSet"}

VARIABLES
  podQueue,   \* workloads with an event to handle
  podTimers,  \* workloads to be queued after ResyncPeriod
  podPc,      \* the next step of the pod worker
  podReq,     \* the workload of the request
  podSpec,    \* objectSpec, the copy taken from SharedInfo
  deletions   \* counter of the bound

podVars == <<podQueue, podTimers, podPc, podReq, podSpec>>
operatorVars == <<vars, podVars, deletions>>

\* DaemonSets and Deployments of other names are not Antrea's: isAntreaResource
\* drops them before anything is read or written
WorkloadNames == {"deployment", "daemonSet"}
WorkloadObjs  == [w \in WorkloadNames |-> objs[w]]

PodSteps == {"idle", "report", "lock", "get", "recreate"}

\* Type invariant: the variables of the pod worker stay in their domains, and a
\* request it has taken finds a spec in SharedInfo, which it reads without looking.
PodTypeOK ==
  /\ podQueue \subseteq WorkloadNames
  /\ podTimers \subseteq WorkloadNames
  /\ podPc \in PodSteps
  /\ podReq \in WorkloadNames \cup {Nil} /\ (podPc = "idle" <=> podReq = Nil)
  /\ podPc # "idle" => published # Nil
  /\ podSpec # Nil <=> podPc \in {"get", "recreate"}
  /\ deletions \in 0..MaxDeletions

-----------------------------------------------------------------------------
\* The locks.

InstallHoldsSharedInfo ==
  pc \in ApplySteps \cup {"deleteAgentPods", "deleteControllerPods"}

\* Mutant: the lock is released when the copy is taken and the workload read.
PodHoldsSharedInfo_GetOnly == podPc = "get"

PodHoldsSharedInfo == podPc \in {"get", "recreate"}
PodHoldsStatus     == podPc = "report"

-----------------------------------------------------------------------------
\* Helpers.

\* An informer tells the pod reconciler of every change of a workload.
Events == {w \in WorkloadNames : objs'[w] # objs[w]}

PodStopped ==
  /\ podQueue' = {} /\ podTimers' = {}
  /\ podPc' = "idle" /\ podReq' = Nil /\ podSpec' = Nil

\* What a step of the others means to the pod worker: an event or its own end.
PodFollows ==
  IF pc' = "down" THEN PodStopped
  ELSE /\ podQueue' = podQueue \cup Events
       /\ UNCHANGED <<podTimers, podPc, podReq, podSpec>>

\* Everything of the install reconciler and of users that is not a workload
Others == <<users, pods, netStatus, queue, pc, local, appliedCluster,
            appliedOper, published, edits, restarts>>

-----------------------------------------------------------------------------
\* The install reconciler, users and the process.

OperatorInit ==
  /\ Init
  /\ podQueue = {} /\ podTimers = {}
  /\ podPc = "idle" /\ podReq = Nil /\ podSpec = Nil
  /\ deletions = 0

UserStep == Users /\ PodFollows /\ UNCHANGED deletions

\* A workload that is deleted leaves its pods to the garbage collector.
DeleteWorkload(w) ==
  /\ deletions < MaxDeletions
  /\ objs[w] # Nil
  /\ objs' = [objs EXCEPT ![w] = Nil]
  /\ deletions' = deletions + 1
  /\ UNCHANGED <<users, pods, netStatus, queue, pc, local, memory, bounds>>
  /\ PodFollows

\* The informers deliver the workloads that exist.
StartWorkers ==
  /\ StartOperator
  /\ podQueue' = {w \in WorkloadNames : objs[w] # Nil}
  /\ UNCHANGED <<podTimers, podPc, podReq, podSpec, deletions>>

CrashWorkers == Crash /\ PodFollows /\ UNCHANGED deletions

InstallDequeue(k) ==
  /\ Dequeue(k)
  /\ PodFollows
  /\ UNCHANGED deletions

\* A step that only calls the API server.
InstallSilent == Silent /\ PodFollows /\ UNCHANGED deletions

\* Mutant: SharedInfo is written without its lock.
InstallReports_NoLock ==
  /\ ~ PodHoldsStatus
  /\ Reporting
  /\ PodFollows
  /\ UNCHANGED deletions

\* A step that also calls StatusManager; publishing takes the lock of SharedInfo first.
InstallReports ==
  /\ ~ PodHoldsStatus
  /\ pc = "publish" => ~ PodHoldsSharedInfo
  /\ Reporting
  /\ PodFollows
  /\ UNCHANGED deletions

-----------------------------------------------------------------------------
\* The pod reconciler.

PodTake(w) ==
  /\ pc # "down" /\ podPc = "idle"
  /\ w \in podQueue
  /\ podQueue' = podQueue \ {w}

\* isAntreaResource, without the lock: nothing has been published.  A publication
\* that is half written when it is read has set the other workload's spec first;
\* the answers are those of before and of after it.
PodIgnore(w) ==
  /\ PodTake(w)
  /\ published = Nil
  /\ UNCHANGED <<vars, podTimers, podPc, podReq, podSpec, deletions>>

\* Mutant: a workload is taken for Antrea's before anything is published.
PodDequeue_Unchecked(w) ==
  /\ PodTake(w)
  /\ podReq' = w
  /\ podPc' = "report"
  /\ UNCHANGED <<vars, podTimers, podSpec, deletions>>

PodDequeue(w) ==
  /\ PodTake(w)
  /\ published # Nil
  /\ podReq' = w
  /\ podPc' = "report"
  /\ UNCHANGED <<vars, podTimers, podSpec, deletions>>

\* SetFromPods returns; it reports its own failures and returns none.
PodReported ==
  /\ podPc = "report"
  /\ podPc' = "lock"
  /\ UNCHANGED <<vars, podQueue, podTimers, podReq, podSpec, deletions>>

\* recreateResourceIfNotExist: the lock is taken and the spec copied.
PodLock ==
  /\ podPc = "lock"
  /\ ~ InstallHoldsSharedInfo
  /\ podSpec' = published[podReq]
  /\ podPc' = "get"
  /\ UNCHANGED <<vars, podQueue, podTimers, podReq, deletions>>

PodDone == podPc' = "idle" /\ podReq' = Nil /\ podSpec' = Nil

\* Mutant: the request is not repeated after ResyncPeriod.
PodReturn_NoResync ==
  /\ PodDone
  /\ podQueue' = podQueue \cup Events
  /\ UNCHANGED podTimers

\* Reconcile returns RequeueAfter ResyncPeriod.
PodReturn ==
  /\ PodDone
  /\ podTimers' = podTimers \cup {podReq}
  /\ podQueue' = podQueue \cup Events

\* Mutant: the error is reported and not returned.
PodReturnError_Dropped ==
  /\ failures < MaxFailures /\ failures' = failures + 1
  /\ failing' = failing \cup {"operator"}
  /\ PodDone
  /\ podQueue' = podQueue \cup Events
  /\ UNCHANGED podTimers

\* The call failed, which is reported at the level of the install reconciler, and
\* Reconcile returns an error.
PodReturnError ==
  /\ failures < MaxFailures /\ failures' = failures + 1
  /\ failing' = failing \cup {"operator"}
  /\ PodDone
  /\ podQueue' = podQueue \cup Events \cup {podReq}
  /\ UNCHANGED podTimers

PodGetFound ==
  /\ podPc = "get"
  /\ objs[podReq] # Nil
  /\ UNCHANGED vars
  /\ PodReturn
  /\ UNCHANGED deletions

PodGetFails ==
  /\ podPc = "get"
  /\ UNCHANGED <<objs, Others>>
  /\ PodReturnError
  /\ UNCHANGED deletions

PodGetNotFound ==
  /\ podPc = "get"
  /\ objs[podReq] = Nil
  /\ podPc' = "recreate"
  /\ UNCHANGED <<vars, podQueue, podTimers, podReq, podSpec, deletions>>

Recreated == [objs EXCEPT ![podReq] = podSpec]

PodRecreate ==
  /\ podPc = "recreate"
  /\ objs' = Recreated
  /\ PodReturn
  /\ UNCHANGED <<Others, failing, failures, deletions>>

PodRecreateFails ==
  /\ podPc = "recreate"
  /\ objs' \in {objs, Recreated}
  /\ PodReturnError
  /\ UNCHANGED <<Others, deletions>>

\* ResyncPeriod has passed.
PodTimer(w) ==
  /\ w \in podTimers
  /\ podTimers' = podTimers \ {w}
  /\ podQueue' = podQueue \cup {w}
  /\ UNCHANGED <<vars, podPc, podReq, podSpec, deletions>>

\* The status of a workload changes.  Where a timer is pending, it stands for the
\* event: both queue the workload.
PodEvent(w) ==
  /\ pc # "down"
  /\ objs[w] # Nil /\ w \notin podQueue \cup podTimers
  /\ podQueue' = podQueue \cup {w}
  /\ UNCHANGED <<vars, podTimers, podPc, podReq, podSpec, deletions>>

-----------------------------------------------------------------------------
\* One Reconcile of the pod worker, without the choice of the key
PodReconcile ==
  \/ PodReported
  \/ PodLock
  \/ PodGetFound \/ PodGetFails \/ PodGetNotFound
  \/ PodRecreate \/ PodRecreateFails

Workers ==
  \/ UserStep
  \/ \E w \in WorkloadNames : DeleteWorkload(w) \/ PodEvent(w)
  \/ CrashWorkers
  \/ StartWorkers
  \/ \E k \in WatchedKeys : InstallDequeue(k)
  \/ InstallSilent \/ InstallReports
  \/ \E w \in WorkloadNames : PodIgnore(w) \/ PodDequeue(w) \/ PodTimer(w)
  \/ PodReconcile

OperatorNext ==
  Workers /\ deletions' + failures' + restarts' <= MaxDisturbances

OperatorSpec == OperatorInit /\ [][OperatorNext]_operatorVars

(***************************************************************************)
(* Each worker makes its next step.  The queues are first in first out,    *)
(* and Go's mutex hands the lock to a goroutine that has waited too long:  *)
(* a key that waits and a worker that waits for a lock are served in the   *)
(* end, though others are served before.  Nothing is assumed of users, of  *)
(* failures or of events without a change.                                 *)
(***************************************************************************)
OperatorFairness ==
  /\ WF_operatorVars(StartWorkers)
  /\ SF_operatorVars(InstallSilent \/ InstallReports)
  /\ \A k \in WatchedKeys : SF_operatorVars(InstallDequeue(k))
  /\ SF_operatorVars(PodReconcile)
  /\ \A w \in WorkloadNames :
       SF_operatorVars(PodDequeue(w)) /\ WF_operatorVars(PodTimer(w))

OperatorFairSpec == OperatorSpec /\ OperatorFairness

-----------------------------------------------------------------------------
(***************************************************************************)
(* Properties.                                                             *)
(***************************************************************************)

\* pod_controller.go:83-92 and antreainstall_controller.go:125-127: whoever writes
\* a workload writes the spec published last, although one copies it before a read
\* and a write that take time, and the other may publish a new one meanwhile.
Store == INSTANCE WorkloadStore WITH
           Names <- WorkloadNames, store <- published, objs <- WorkloadObjs
StoreSpec == Store!Spec

\* pod_controller.go:80-119: a workload that is deleted comes back, whatever is edited,
\* published or fails at the same time, as long as the process lives.
DeletedComesBack ==
  \A w \in WorkloadNames :
    published # Nil /\ w \in podQueue /\ objs[w] = Nil ~> objs[w] # Nil \/ pc = "down"

\* pod_controller.go:31-34, 66: as long as the process lives, the status of every
\* workload that exists is looked at again and again.
StatusIsFollowed ==
  \A w \in WorkloadNames :
    []<>(\/ podPc = "report" /\ podReq = w
         \/ objs[w] = Nil
         \/ restarts > 0)

\* With both workers at rest and no failed call, the workloads are those of the
\* configuration users asked for, through deletions, crashes and edits.
PodSettled == podPc = "idle" /\ podQueue = {}
WorkloadsAreLatest ==
  failures = 0 /\ SettledClean /\ PodSettled /\ published # Nil =>
    WorkloadObjs = [w \in WorkloadNames |-> published[w]]

\* With both workers at rest and no failed call, the cluster holds what users wrote:
\* one configuration, completed or as it is, in the ConfigMap and in every workload that
\* exists, through edits, deletions and crashes, and a process that has published has both
\* workloads.  A process that has published nothing found nothing to apply.  If an earlier
\* one was killed it may have found that too early: the DaemonSet, which
\* getAppliedOperConfig does not read back, may then have an old image for good.
ClusterIsAsWritten ==
  failures = 0 /\ SettledClean /\ PodSettled /\ DesiredExists =>
    \E s \in {cr, FillConfigs(net, cr)} :
      /\ objs.configMap = Rendered(s, opNet).configMap
      /\ objs.deployment # Nil => objs.deployment = Rendered(s, opNet).deployment
      /\ objs.daemonSet # Nil /\ (published # Nil \/ restarts = 0) =>
           objs.daemonSet.image = s.image
      /\ published # Nil => objs.deployment # Nil /\ objs.daemonSet # Nil

\* pod_controller.go:66, 76: in the first process, a workload that exists is looked at,
\* waits to be, or has a timer.  (A later process drops the workloads it learns of before
\* it publishes.)
Followed(w) == w \in podQueue \cup podTimers \cup {podReq}
ResyncIsKept ==
  restarts = 0 => \A w \in WorkloadNames : objs[w] # Nil => Followed(w)

\* pod_controller.go:80-119: a workload that was published and is missing stays with the
\* pod reconciler until it exists again or the process ends, whatever calls fail.
DeletionIsKept ==
  [][ \A w \in WorkloadNames :
        published # Nil /\ objs[w] = Nil /\ w \in podQueue \cup {podReq} =>
          objs'[w] # Nil \/ w \in podQueue' \cup {podReq'} \/ pc' = "down"
    ]_operatorVars
=============================================================================

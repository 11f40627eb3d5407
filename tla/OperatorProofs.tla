--------------------------- MODULE OperatorProofs ---------------------------
(***************************************************************************)
(* Theorems about Operator, for every value of its constants.              *)
(***************************************************************************)
EXTENDS Operator, InstallReconcilerProofs

-----------------------------------------------------------------------------
(***************************************************************************)
(* What the steps of the two reconcilers are to one another.               *)
(***************************************************************************)

\* What a step of the pod reconciler, or the deletion of a workload, does to the
\* state of the install reconciler: it writes or deletes one workload, and it may
\* report a failure.
PodTouches ==
  /\ UNCHANGED Others
  /\ \/ UNCHANGED objs
     \/ \E w \in WorkloadNames : objs' = [objs EXCEPT ![w] = Nil]
     \/ podPc = "recreate" /\ objs' = Recreated
  /\ failing' \in {failing, failing \cup {"operator"}}
  /\ \/ failures' = failures
     \/ failures < MaxFailures /\ failures' = failures + 1

\* Every step of the process is a step of the install reconciler on its own, or one
\* of the pod reconciler or of users on the workloads.
LEMMA StepKinds == [OperatorNext]_operatorVars => [Next]_vars \/ PodTouches
<1> SUFFICES ASSUME [OperatorNext]_operatorVars PROVE [Next]_vars \/ PodTouches
  OBVIOUS
<1>1. CASE UserStep \/ CrashWorkers
  BY <1>1 DEF UserStep, CrashWorkers, Next, Environment
<1>2. CASE StartWorkers
  BY <1>2 DEF StartWorkers, Next
<1>3. CASE \E k \in WatchedKeys : InstallDequeue(k)
  BY <1>3 DEF InstallDequeue, Next
<1>4. CASE InstallSilent \/ InstallReports
  BY <1>4 DEF InstallSilent, InstallReports, Next, Reconcile
<1>5. CASE \E w \in WorkloadNames : DeleteWorkload(w)
  BY <1>5 DEF DeleteWorkload, PodTouches, Others, memory, bounds
<1>6. CASE PodGetFails
  BY <1>6 DEF PodGetFails, PodReturnError, PodTouches
<1>7. CASE PodRecreate
  BY <1>7 DEF PodRecreate, PodTouches
<1>8. CASE PodRecreateFails
  BY <1>8 DEF PodRecreateFails, PodReturnError, PodTouches
<1>9. CASE UNCHANGED vars
  BY <1>9
<1>10. CASE \/ \E w \in WorkloadNames :
                 PodEvent(w) \/ PodIgnore(w) \/ PodDequeue(w) \/ PodTimer(w)
            \/ PodReported \/ PodLock \/ PodGetFound \/ PodGetNotFound
  <2>1. UNCHANGED vars
    BY <1>10 DEF PodEvent, PodIgnore, PodDequeue, PodTimer, PodReported, PodLock,
       PodGetFound, PodGetNotFound
  <2> QED
    BY <2>1
<1> QED
  BY <1>1, <1>2, <1>3, <1>4, <1>5, <1>6, <1>7, <1>8, <1>9, <1>10
  DEF OperatorNext, Workers, PodReconcile, operatorVars

\* The specs of a published pair are typed.
LEMMA PublishedTyped ==
  ASSUME NEW p \in Workloads
  PROVE  p.deployment \in Deployments /\ p.daemonSet \in DaemonSets
<1>1. PICK r \in Objects : p = WorkloadsOf(r)
  BY DEF Workloads
<1> QED
  BY <1>1 DEF WorkloadsOf, Deployments, DaemonSets

-----------------------------------------------------------------------------
(***************************************************************************)
(* The lock.  While a reconciler is between reading SharedInfo and writing *)
(* the cluster, what it carries is what SharedInfo holds.                  *)
(***************************************************************************)
PodCarries ==
  /\ podPc \in PodSteps
  /\ podPc # "idle" => published # Nil /\ podReq \in WorkloadNames
  /\ PodHoldsSharedInfo => ~ InstallHoldsSharedInfo /\ podSpec = published[podReq]

InstallCarries == InstallHoldsSharedInfo => published = WorkloadsOf(Rendered(oper, opn))

OperatorInv == TypeInv /\ PodCarries /\ InstallCarries

\* The process starts with both workers idle.
LEMMA OperatorInvInit == OperatorInit => OperatorInv
<1> SUFFICES ASSUME OperatorInit PROVE OperatorInv
  OBVIOUS
<1>1. TypeInv
  BY TypeInit DEF OperatorInit
<1> QED
  BY <1>1 DEF OperatorInit, Init, OperatorInv, PodCarries, InstallCarries, PodSteps,
     PodHoldsSharedInfo, InstallHoldsSharedInfo, ApplySteps

\* Every step keeps the types: what the pod reconciler writes has been published.
LEMMA OperatorTypeStep == OperatorInv /\ [OperatorNext]_operatorVars => TypeInv'
<1> SUFFICES ASSUME OperatorInv, [OperatorNext]_operatorVars PROVE TypeInv'
  OBVIOUS
<1>1. CASE [Next]_vars
  BY <1>1, TypeStep DEF OperatorInv
<1>2. CASE PodTouches
  <2>1. published \in Workloads \/ podPc # "recreate"
    BY DEF OperatorInv, TypeInv, TypeOK, PodCarries
  <2>2. podPc = "recreate" =>
          /\ podReq \in WorkloadNames
          /\ podSpec = published[podReq]
          /\ published.deployment \in Deployments /\ published.daemonSet \in DaemonSets
    BY <2>1, PublishedTyped DEF OperatorInv, PodCarries, PodHoldsSharedInfo
  <2>3. objs' \in [configMap  : ConfigMaps \cup {Nil},
                   deployment : Deployments \cup {Nil},
                   daemonSet  : DaemonSets \cup {Nil}]
    BY <1>2, <2>2 DEF PodTouches, Recreated, WorkloadNames, OperatorInv, TypeInv, TypeOK
  <2>4. failing' \in SUBSET {"cluster", "operator"} /\ failures' \in 0..MaxFailures
    BY <1>2, InstallAssumption DEF PodTouches, OperatorInv, TypeInv, TypeOK
  <2>5. TypeOK'
    BY <1>2, <2>3, <2>4 DEF PodTouches, Others, users, pods, local, OperatorInv, TypeInv,
       TypeOK
  <2>6. LocalsOK'
    BY <1>2 DEF PodTouches, Others, local, OperatorInv, TypeInv, LocalsOK
  <2> QED
    BY <2>5, <2>6 DEF TypeInv
<1> QED
  BY <1>1, <1>2, StepKinds

\* What a step of the install reconciler's module does to what the lock protects:
\* the process is down, it publishes, or it leaves SharedInfo alone, writes
\* the cluster between the publication and the end of applyConfig only, and comes
\* to hold the lock by publishing only.
LEMMA InstallEffects ==
  ASSUME TypeInv, [Next]_vars
  PROVE  \/ pc' = "down" /\ UNCHANGED objs
         \/ Publish
         \/ /\ UNCHANGED published
            /\ \/ UNCHANGED objs
               \/ pc \in ApplySteps /\ objs' \in {objs, AppliedObjs}
            /\ InstallHoldsSharedInfo' =>
                 InstallHoldsSharedInfo /\ UNCHANGED <<oper, opn>>
<1> USE DEF InstallHoldsSharedInfo, ApplySteps
<1>1. CASE Users \/ (\E k \in Keys : SpuriousEvent(k)) \/ StartAgentPods
           \/ StartControllerPods
  BY <1>1 DEF Users, WriteInstall, WriteNetwork, WriteOperatorNetwork, SpuriousEvent,
     StartAgentPods, StartControllerPods, local, memory
<1>2. CASE Crash \/ FillConfigsPanics \/ HasDefaultMTUChangePanics
  BY <1>2 DEF Crash, FillConfigsPanics, HasDefaultMTUChangePanics, Die
<1>3. CASE \/ StartOperator \/ (\E k \in Keys : Ignore(k))
           \/ (\E k \in WatchedKeys : Dequeue(k))
  BY <1>3 DEF StartOperator, Ignore, Dequeue, memory
<1>4. CASE \/ GetNetworkFails \/ NetworkNotFound \/ NetworkUnchanged
           \/ GetOperatorNetworkFails \/ OperatorNetworkNotFound
           \/ GetInstallFails \/ InstallNotFound \/ InstallUnchanged
           \/ RejectConfig \/ GetAppliedConfigFails \/ PublishFails
           \/ DeleteAgentPodsFails \/ DeleteControllerPodsFails
           \/ UpdateNetworkStatusFails \/ Finish
  <2>1. pc' = "idle" /\ UNCHANGED <<published, objs>>
    BY <1>4 DEF GetNetworkFails, NetworkNotFound, NetworkUnchanged,
       GetOperatorNetworkFails, OperatorNetworkNotFound, GetInstallFails,
       InstallNotFound, InstallUnchanged, RejectConfig, GetAppliedConfigFails,
       PublishFails, DeleteAgentPodsFails, DeleteControllerPodsFails,
       UpdateNetworkStatusFails, Finish, Return, ReturnError, Done, memory
  <2> QED
    BY <2>1
<1>5. CASE \/ GetNetwork \/ GetOperatorNetwork \/ GetInstall \/ Compare
           \/ NetworkStatusNotNeeded \/ UpdateNetworkStatus
  BY <1>5 DEF GetNetwork, GetOperatorNetwork, GetInstall, Compare, AfterApply,
     NetworkStatusNotNeeded, UpdateNetworkStatus, memory
<1>6. CASE Apply
  BY <1>6 DEF Apply, local, memory
<1>7. CASE ApplyFails
  BY <1>7 DEF ApplyFails, ReturnError, Done
<1>8. CASE DeleteAgentPods \/ DeleteControllerPods
  BY <1>8 DEF DeleteAgentPods, DeleteControllerPods, AfterApply, local, memory
<1>9. CASE UNCHANGED vars
  BY <1>9 DEF vars, local, memory
<1> QED
  BY <1>1, <1>2, <1>3, <1>4, <1>5, <1>6, <1>7, <1>8, <1>9
  DEF Next, Environment, Reconcile, Reporting, Silent

\* Only InstallReports publishes.
LEMMA OthersDoNotPublish ==
  Users \/ Crash \/ StartOperator \/ (\E k \in WatchedKeys : Dequeue(k)) \/ Silent
    => ~ Publish
<1> USE DEF Publish
<1>1. Users \/ Crash \/ StartOperator \/ (\E k \in WatchedKeys : Dequeue(k)) => ~ Publish
  BY DEF Users, WriteInstall, WriteNetwork, WriteOperatorNetwork, Crash, Die,
     StartOperator, Dequeue
<1>2. Silent => ~ Publish
  BY DEF Silent, NetworkUnchanged, GetNetwork, GetOperatorNetworkFails,
     GetOperatorNetwork, InstallUnchanged, GetInstall, FillConfigsPanics, Compare,
     Accepted, Apply, ApplySteps, DeleteAgentPods, DeleteControllerPods,
     HasDefaultMTUChangePanics, NetworkStatusNotNeeded, UpdateNetworkStatus
<1> QED
  BY <1>1, <1>2

\* A step of the install reconciler, of users or of the process that publishes
\* under the lock only keeps what either of them carries.
LEMMA CarriesFollows ==
  ASSUME OperatorInv, TypeInv', [Next]_vars,
         Publish => ~ PodHoldsSharedInfo,
         \/ podPc' = "idle"
         \/ pc' # "down" /\ UNCHANGED <<podPc, podReq, podSpec>>
  PROVE  (PodCarries /\ InstallCarries)'
<1> USE DEF OperatorInv, PodCarries, InstallCarries, PodHoldsSharedInfo, PodSteps
<1>1. CASE pc' = "down"
  BY <1>1 DEF InstallHoldsSharedInfo, ApplySteps
<1>2. CASE Publish
  <2>1. /\ published' = WorkloadsOf(Rendered(oper, opn))
        /\ pc' = "configMap" /\ UNCHANGED <<oper, opn>>
    BY <1>2 DEF Publish, local
  <2>2. published' # Nil
    BY <2>1, <1>2, RenderedTyped, WorkloadAssumption, NilAssumption
    DEF Publish, TypeInv, TypeOK, LocalsOK, Decided
  <2> QED
    BY <1>2, <2>1, <2>2
<1>3. CASE /\ pc' # "down" /\ UNCHANGED published
           /\ InstallHoldsSharedInfo' => InstallHoldsSharedInfo /\ UNCHANGED <<oper, opn>>
  BY <1>3
<1> QED
  BY <1>1, <1>2, <1>3, InstallEffects

\* Every step keeps the lock's invariant.
LEMMA OperatorStep == OperatorInv /\ [OperatorNext]_operatorVars => OperatorInv'
<1> SUFFICES ASSUME OperatorInv, [OperatorNext]_operatorVars
             PROVE  (PodCarries /\ InstallCarries)'
  BY OperatorTypeStep DEF OperatorInv
<1>t. TypeInv'
  BY OperatorTypeStep
<1>1. CASE \/ UserStep \/ CrashWorkers \/ StartWorkers
           \/ (\E k \in WatchedKeys : InstallDequeue(k))
           \/ InstallSilent \/ InstallReports
  <2>1. [Next]_vars
    BY <1>1 DEF UserStep, CrashWorkers, StartWorkers, InstallDequeue, InstallSilent,
       InstallReports, Next, Environment, Reconcile
  <2>2. Publish => ~ PodHoldsSharedInfo
    BY <1>1, OthersDoNotPublish DEF UserStep, CrashWorkers, StartWorkers,
       InstallDequeue, InstallSilent, InstallReports, Publish
  <2>3. \/ podPc' = "idle"
        \/ pc' # "down" /\ UNCHANGED <<podPc, podReq, podSpec>>
    BY <1>1 DEF UserStep, CrashWorkers, StartWorkers, StartOperator, InstallDequeue,
       InstallSilent, InstallReports, PodFollows, PodStopped
  <2> QED
    BY <1>t, <2>1, <2>2, <2>3, CarriesFollows
<1> USE DEF OperatorInv, PodCarries, InstallCarries, PodHoldsSharedInfo,
   InstallHoldsSharedInfo, ApplySteps, PodSteps
<1>2. CASE \E w \in WorkloadNames : DeleteWorkload(w)
  BY <1>2 DEF DeleteWorkload, PodFollows, PodStopped, local, memory
<1>3. CASE \E w \in WorkloadNames : PodEvent(w) \/ PodIgnore(w) \/ PodTimer(w)
  BY <1>3 DEF PodEvent, PodIgnore, PodTimer, vars, local, memory
<1>4. CASE \E w \in WorkloadNames : PodDequeue(w)
  BY <1>4 DEF PodDequeue, PodTake, vars, local, memory
<1>5. CASE PodReported \/ PodLock
  BY <1>5 DEF PodReported, PodLock, vars, local, memory
<1>6. CASE PodGetFound \/ PodGetFails \/ PodGetNotFound
  BY <1>6 DEF PodGetFound, PodGetFails, PodGetNotFound, PodReturn, PodReturnError,
     PodDone, Others, vars, local, memory
<1>7. CASE PodRecreate \/ PodRecreateFails
  BY <1>7 DEF PodRecreate, PodRecreateFails, PodReturn, PodReturnError, PodDone,
     Others, local
<1>8. CASE UNCHANGED operatorVars
  BY <1>8 DEF operatorVars, podVars, vars, local, memory
<1> QED
  BY <1>1, <1>2, <1>3, <1>4, <1>5, <1>6, <1>7, <1>8
  DEF OperatorNext, Workers, PodReconcile

\* In the whole process, every variable of the install reconciler keeps its type,
\* the workloads that the pod reconciler writes included: what it copies has been
\* published before, and is not replaced by nothing between its check and its copy.
THEOREM OperatorTypeCorrect == OperatorSpec => []TypeOK
<1>1. OperatorInv => TypeOK
  BY DEF OperatorInv, TypeInv
<1> QED
  BY OperatorInvInit, OperatorStep, <1>1, PTL DEF OperatorSpec

\* The first state of the pod worker is typed.
LEMMA PodTypeInit == OperatorInit => PodTypeOK
  BY DisturbanceAssumption DEF OperatorInit, PodTypeOK, PodSteps

\* Every step keeps the types of the pod worker: its spec is one of a workload.
LEMMA PodTypeStep ==
  PodTypeOK /\ OperatorInv /\ [OperatorNext]_operatorVars => PodTypeOK'
<1> SUFFICES ASSUME PodTypeOK, OperatorInv, [OperatorNext]_operatorVars
             PROVE  PodTypeOK'
  OBVIOUS
<1>p. podPc' # "idle" => published' # Nil
  BY OperatorStep DEF OperatorInv, PodCarries
<1> USE <1>p, DisturbanceAssumption
<1> USE DEF PodTypeOK, PodSteps
<1>1. CASE \/ UserStep \/ CrashWorkers \/ StartWorkers
           \/ (\E k \in WatchedKeys : InstallDequeue(k))
           \/ InstallSilent \/ InstallReports
  BY <1>1 DEF UserStep, CrashWorkers, StartWorkers, InstallDequeue, InstallSilent,
     InstallReports, PodFollows, PodStopped, Events
<1>2. CASE \E w \in WorkloadNames : DeleteWorkload(w)
  BY <1>2 DEF DeleteWorkload, PodFollows, PodStopped, Events
<1>3. CASE \E w \in WorkloadNames : PodEvent(w) \/ PodIgnore(w) \/ PodTimer(w)
  BY <1>3 DEF PodEvent, PodIgnore, PodTake, PodTimer
<1>4. CASE \E w \in WorkloadNames : PodDequeue(w)
  BY <1>4, WorkloadAssumption, NilAssumption DEF PodDequeue, PodTake, WorkloadNames
<1>5. CASE PodReported
  BY <1>5 DEF PodReported
<1>6. CASE PodLock
  <2>1. podReq \in WorkloadNames /\ published \in Workloads
    BY <1>6 DEF PodLock, OperatorInv, PodCarries, TypeInv, TypeOK
  <2>2. published[podReq] # Nil
    BY <2>1, PublishedTyped, WorkloadAssumption, NilAssumption DEF WorkloadNames
  <2> QED
    BY <1>6, <2>2 DEF PodLock
<1>7. CASE PodGetFound \/ PodGetFails \/ PodGetNotFound
  BY <1>7 DEF PodGetFound, PodGetFails, PodGetNotFound, PodReturn, PodReturnError,
     PodDone, Events
<1>8. CASE PodRecreate \/ PodRecreateFails
  BY <1>8 DEF PodRecreate, PodRecreateFails, PodReturn, PodReturnError, PodDone, Events
<1>9. CASE UNCHANGED operatorVars
  BY <1>9 DEF operatorVars, podVars
<1> QED
  BY <1>1, <1>2, <1>3, <1>4, <1>5, <1>6, <1>7, <1>8, <1>9
  DEF OperatorNext, Workers, PodReconcile

\* A request that the pod worker has taken always finds a spec in SharedInfo, although
\* the check for one is made without the lock and the process never locks it in between.
THEOREM PodTypeCorrect == OperatorSpec => []PodTypeOK
  BY PodTypeInit, PodTypeStep, OperatorInvInit, OperatorStep, PTL DEF OperatorSpec

-----------------------------------------------------------------------------
(***************************************************************************)
(* The refinement: the two reconcilers implement WorkloadStore.            *)
(***************************************************************************)

\* A write of a workload maps to Write of the abstract store.
LEMMA WriteMaps ==
  ASSUME NEW w \in WorkloadNames, TypeInv, published # Nil,
         UNCHANGED published, objs' = [objs EXCEPT ![w] = published[w]]
  PROVE  Store!Write(w)
<1>1. WorkloadObjs' = [WorkloadObjs EXCEPT ![w] = published[w]]
  BY DEF WorkloadObjs, WorkloadNames, TypeInv, TypeOK
<1> QED
  BY <1>1 DEF Store!Write

\* So does a deletion to Delete.
LEMMA DeleteMaps ==
  ASSUME NEW w \in WorkloadNames, TypeInv,
         UNCHANGED published, objs' = [objs EXCEPT ![w] = Nil]
  PROVE  Store!Delete(w)
<1>1. WorkloadObjs' = [WorkloadObjs EXCEPT ![w] = Nil]
  BY DEF WorkloadObjs, WorkloadNames, TypeInv, TypeOK
<1> QED
  BY <1>1 DEF Store!Delete

\* Every step of the process is one of the abstract store, or leaves it alone.
LEMMA StoreStep ==
  OperatorInv /\ [OperatorNext]_operatorVars => [Store!Next]_(Store!vars)
<1> SUFFICES ASSUME OperatorInv, [OperatorNext]_operatorVars
             PROVE  Store!Next \/ UNCHANGED <<published, WorkloadObjs>>
  BY DEF Store!vars
<1>0. TypeInv
  BY DEF OperatorInv
<1>u. ASSUME UNCHANGED objs
      PROVE  Store!Next \/ UNCHANGED <<published, WorkloadObjs>>
  BY <1>u DEF WorkloadObjs, Store!Next, Store!Publish, Store!Forget
<1>1. CASE [Next]_vars
  <2>1. CASE UNCHANGED objs
    BY <1>u, <2>1
  <2>2. CASE UNCHANGED published /\ pc \in ApplySteps /\ objs' = AppliedObjs
    <3>1. published = WorkloadsOf(Rendered(oper, opn)) /\ published # Nil
      <4>1. published = WorkloadsOf(Rendered(oper, opn))
        BY <2>2 DEF OperatorInv, InstallCarries, InstallHoldsSharedInfo
      <4>2. WorkloadsOf(Rendered(oper, opn)) \in Workloads
        BY <1>0, <2>2, RenderedTyped DEF TypeInv, LocalsOK, Decided
      <4> QED
        BY <4>1, <4>2, WorkloadAssumption, NilAssumption
    <3>2. CASE pc = "configMap"
      BY <1>0, <2>2, <3>2 DEF AppliedObjs, WorkloadObjs, WorkloadNames, TypeInv, TypeOK
    <3>3. CASE pc \in WorkloadNames
      <4>1. published[pc] = Rendered(oper, opn)[pc]
        <5>1. CASE pc = "deployment"
          BY <3>1, <5>1 DEF WorkloadsOf
        <5>2. CASE pc = "daemonSet"
          BY <3>1, <5>2 DEF WorkloadsOf
        <5> QED
          BY <3>3, <5>1, <5>2 DEF WorkloadNames
      <4>2. objs' = [objs EXCEPT ![pc] = published[pc]]
        BY <2>2, <4>1 DEF AppliedObjs
      <4> QED
        BY <1>0, <2>2, <3>1, <3>3, <4>2, WriteMaps DEF Store!Next
    <3> QED
      BY <2>2, <3>2, <3>3 DEF ApplySteps, WorkloadNames
  <2>3. CASE Publish
    BY <1>u, <2>3 DEF Publish
  <2> QED
    BY <1>0, <1>1, <2>1, <2>2, <2>3, InstallEffects
<1>2. CASE PodTouches
  <2>1. UNCHANGED published
    BY <1>2 DEF PodTouches, Others
  <2>2. CASE UNCHANGED objs
    BY <1>u, <2>2
  <2>3. CASE \E w \in WorkloadNames : objs' = [objs EXCEPT ![w] = Nil]
    BY <1>0, <2>1, <2>3, DeleteMaps DEF Store!Next
  <2>4. CASE podPc = "recreate" /\ objs' = Recreated
    <3>1. /\ podReq \in WorkloadNames /\ published # Nil
          /\ objs' = [objs EXCEPT ![podReq] = published[podReq]]
      BY <2>4 DEF Recreated, OperatorInv, PodCarries, PodHoldsSharedInfo
    <3> QED
      BY <1>0, <2>1, <3>1, WriteMaps DEF Store!Next
  <2> QED
    BY <1>2, <2>2, <2>3, <2>4 DEF PodTouches
<1> QED
  BY <1>1, <1>2, StepKinds

\* Whoever writes a workload of Antrea, the install reconciler or the pod reconciler,
\* writes the spec that was rendered last, whatever is edited, deleted, failed or
\* killed meanwhile: no workload is created again from a configuration replaced
\* since it was looked at.
THEOREM StoreImplemented == OperatorSpec => StoreSpec
<1>1. OperatorInit => Store!Init
  BY DEF OperatorInit, Init, Store!Init, WorkloadObjs, WorkloadNames, ObjectNames
<1> QED
  BY <1>1, OperatorInvInit, OperatorStep, StoreStep, PTL
  DEF OperatorSpec, StoreSpec, Store!Spec

-----------------------------------------------------------------------------
(***************************************************************************)
(* The workloads at rest.  A workload that is not the published one is     *)
(* missing, and the pod reconciler knows it, or its turn in applyConfig    *)
(* is still to come.                                                       *)
(***************************************************************************)
ToApply(w) == IF w = "deployment" THEN {"configMap", "deployment"} ELSE ApplySteps

Cared(w) ==
  \/ objs[w] = published[w]
  \/ objs[w] = Nil /\ (w \in podQueue \/ podReq = w)
  \/ pc \in ToApply(w)

LatestInv ==
  /\ pc = "down" => published = Nil
  /\ failures = 0 /\ published # Nil => \A w \in WorkloadNames : Cared(w)

\* A process that has not started has published nothing.
LEMMA LatestInit == OperatorInit => LatestInv
  BY DEF OperatorInit, Init, LatestInv

\* In the middle of applyConfig, only applyConfig goes on.
LEMMA ApplyGoesOn ==
  ASSUME [Next]_vars, pc \in ApplySteps, pc' # "down"
  PROVE  Apply \/ ApplyFails \/ UNCHANGED <<pc, objs, published>>
<1> USE DEF ApplySteps
<1>1. CASE Users \/ (\E k \in Keys : SpuriousEvent(k)) \/ StartAgentPods
           \/ StartControllerPods
  BY <1>1 DEF Users, WriteInstall, WriteNetwork, WriteOperatorNetwork, SpuriousEvent,
     StartAgentPods, StartControllerPods, memory
<1>2. CASE \/ Crash \/ StartOperator
           \/ (\E k \in Keys : Ignore(k)) \/ (\E k \in WatchedKeys : Dequeue(k))
  BY <1>2 DEF Crash, Die, StartOperator, Ignore, Dequeue
<1>3. CASE Reporting
  BY <1>3 DEF Reporting, GetNetworkFails, NetworkNotFound, OperatorNetworkNotFound,
     GetInstallFails, InstallNotFound, RejectConfig, GetAppliedConfigFails, Accepted,
     Publish, PublishFails, DeleteAgentPodsFails, DeleteControllerPodsFails,
     UpdateNetworkStatusFails, Finish
<1>4. CASE Silent
  BY <1>4 DEF Silent, NetworkUnchanged, GetNetwork, GetOperatorNetworkFails,
     GetOperatorNetwork, InstallUnchanged, GetInstall, FillConfigsPanics, Compare,
     Accepted, DeleteAgentPods, DeleteControllerPods,
     HasDefaultMTUChangePanics, NetworkStatusNotNeeded, UpdateNetworkStatus
<1>5. CASE UNCHANGED vars
  BY <1>5 DEF vars, memory
<1> QED
  BY <1>1, <1>2, <1>3, <1>4, <1>5 DEF Next, Environment, Reconcile

\* A process that is down, or goes down, has forgotten what it published.
LEMMA DownForgets ==
  ASSUME [Next]_vars, pc = "down" => published = Nil, pc' = "down"
  PROVE  published' = Nil
<1>1. CASE Users \/ (\E k \in Keys : SpuriousEvent(k)) \/ StartAgentPods
           \/ StartControllerPods
  BY <1>1 DEF Users, WriteInstall, WriteNetwork, WriteOperatorNetwork, SpuriousEvent,
     StartAgentPods, StartControllerPods, memory
<1>2. CASE Crash \/ FillConfigsPanics \/ HasDefaultMTUChangePanics
  BY <1>2 DEF Crash, FillConfigsPanics, HasDefaultMTUChangePanics, Die, Wiped
<1>3. CASE \/ StartOperator
           \/ (\E k \in Keys : Ignore(k)) \/ (\E k \in WatchedKeys : Dequeue(k))
  BY <1>3 DEF StartOperator, Ignore, Dequeue
<1>4. CASE Reporting
  <2>1. CASE Publish
    BY <2>1 DEF Publish
  <2>2. CASE ~ Publish
    <3>1. Return \/ ReturnError
      BY <1>4, <2>2 DEF Reporting, GetNetworkFails, NetworkNotFound,
         OperatorNetworkNotFound, GetInstallFails, InstallNotFound, RejectConfig,
         GetAppliedConfigFails, PublishFails, ApplyFails, DeleteAgentPodsFails,
         DeleteControllerPodsFails, UpdateNetworkStatusFails, Finish
    <3> QED
      BY <3>1 DEF Return, ReturnError, Done
  <2> QED
    BY <2>1, <2>2
<1>5. CASE /\ Silent /\ ~ FillConfigsPanics /\ ~ HasDefaultMTUChangePanics
  BY <1>5 DEF Silent, NetworkUnchanged, GetNetwork, GetOperatorNetworkFails,
     GetOperatorNetwork, InstallUnchanged, GetInstall, Compare, AfterApply, Apply,
     ApplySteps, DeleteAgentPods, DeleteControllerPods, NetworkStatusNotNeeded,
     UpdateNetworkStatus, Return, ReturnError, Done
<1>6. CASE UNCHANGED vars
  BY <1>6 DEF vars, memory
<1> QED
  BY <1>1, <1>2, <1>3, <1>4, <1>5, <1>6 DEF Next, Environment, Reconcile

\* A step of the install reconciler, of users or of the process leaves every workload
\* cared for: it applies it, or comes before.
LEMMA LatestFollows ==
  ASSUME OperatorInv, LatestInv, [Next]_vars, failures' = 0,
         \/ pc' = "down"
         \/ podQueue \subseteq podQueue' /\ UNCHANGED podReq
  PROVE  LatestInv'
<1>1. pc' = "down" => published' = Nil
  BY DownForgets DEF LatestInv
<1> SUFFICES ASSUME published' # Nil, NEW w \in WorkloadNames PROVE Cared(w)'
  BY <1>1 DEF LatestInv
<1>2. pc' # "down" /\ podQueue \subseteq podQueue' /\ UNCHANGED podReq
  BY <1>1
<1>3. failures = 0 /\ ~ Fault
  BY FailureCount DEF Fault, OperatorInv, TypeInv, TypeOK
<1>4. CASE Publish
  BY <1>4 DEF Publish, Cared, ToApply, ApplySteps
<1>5. CASE pc \in ApplySteps
  <2>1. CASE Apply
    <3>1. published = WorkloadsOf(Rendered(oper, opn)) /\ UNCHANGED published
      BY <1>5, <2>1 DEF Apply, memory, OperatorInv, InstallCarries, InstallHoldsSharedInfo
    <3>2. CASE w = pc
      <4>1. published[w] = Rendered(oper, opn)[w]
        <5>1. CASE w = "deployment"
          BY <3>1, <5>1 DEF WorkloadsOf
        <5>2. CASE w = "daemonSet"
          BY <3>1, <5>2 DEF WorkloadsOf
        <5> QED
          BY <5>1, <5>2 DEF WorkloadNames
      <4>2. objs'[w] = Rendered(oper, opn)[w]
        BY <2>1, <3>2 DEF Apply, AppliedObjs, WorkloadNames, OperatorInv, TypeInv, TypeOK
      <4> QED
        BY <3>1, <4>1, <4>2 DEF Cared
    <3>3. CASE w # pc
      <4>1. objs'[w] = objs[w]
        BY <2>1, <3>3 DEF Apply, AppliedObjs, WorkloadNames, OperatorInv, TypeInv, TypeOK
      <4>2. pc \in ToApply(w) => pc' \in ToApply(w)
        <5>1. CASE pc = "configMap"
          BY <2>1, <5>1 DEF Apply, ToApply, ApplySteps
        <5>2. CASE pc = "deployment"
          BY <2>1, <3>3, <5>2 DEF Apply, ToApply, ApplySteps, WorkloadNames
        <5>3. CASE pc = "daemonSet"
          BY <3>3, <5>3 DEF ToApply, WorkloadNames
        <5> QED
          BY <1>5, <5>1, <5>2, <5>3 DEF ApplySteps
      <4> QED
        BY <1>2, <1>3, <3>1, <4>1, <4>2 DEF Cared, LatestInv
    <3> QED
      BY <3>2, <3>3
  <2>2. CASE UNCHANGED <<pc, objs, published>>
    BY <1>2, <1>3, <2>2 DEF Cared, LatestInv
  <2>3. ~ ApplyFails
    BY <1>3 DEF ApplyFails
  <2> QED
    BY <1>2, <1>5, <2>1, <2>2, <2>3, ApplyGoesOn
<1>6. CASE pc \notin ApplySteps /\ UNCHANGED <<objs, published>>
  BY <1>2, <1>3, <1>6 DEF Cared, LatestInv, ToApply, ApplySteps
<1> QED
  BY <1>2, <1>4, <1>5, <1>6, InstallEffects DEF OperatorInv

\* Every step leaves every workload cared for.
LEMMA LatestStep ==
  OperatorInv /\ PodTypeOK /\ LatestInv /\ [OperatorNext]_operatorVars => LatestInv'
<1> SUFFICES ASSUME OperatorInv, PodTypeOK, LatestInv, [OperatorNext]_operatorVars
             PROVE  LatestInv'
  OBVIOUS
<1>0. /\ failures \in Nat
      /\ objs \in [configMap  : ConfigMaps \cup {Nil},
                   deployment : Deployments \cup {Nil},
                   daemonSet  : DaemonSets \cup {Nil}]
  BY InstallAssumption DEF OperatorInv, TypeInv, TypeOK
<1>1. CASE \/ UserStep \/ CrashWorkers \/ StartWorkers
           \/ (\E k \in WatchedKeys : InstallDequeue(k))
           \/ InstallSilent \/ InstallReports
  <2>1. [Next]_vars
    BY <1>1 DEF UserStep, CrashWorkers, StartWorkers, InstallDequeue, InstallSilent,
       InstallReports, Next, Environment, Reconcile
  <2>2. CASE StartWorkers
    BY <2>2 DEF StartWorkers, StartOperator, memory, LatestInv
  <2>3. CASE ~ StartWorkers
    <3>1. PodFollows
      BY <1>1, <2>3 DEF UserStep, CrashWorkers, InstallDequeue, InstallSilent,
         InstallReports
    <3>2. CASE failures' = 0
      <4>1. \/ pc' = "down"
            \/ podQueue \subseteq podQueue' /\ UNCHANGED podReq
        BY <3>1 DEF PodFollows
      <4> QED
        BY <2>1, <3>2, <4>1, LatestFollows
    <3>3. CASE failures' # 0
      BY <2>1, <3>3, DownForgets DEF LatestInv
    <3> QED
      BY <3>2, <3>3
  <2> QED
    BY <2>2, <2>3
<1>2. CASE \E w \in WorkloadNames : DeleteWorkload(w)
  <2>1. PICK w \in WorkloadNames : DeleteWorkload(w)
    BY <1>2
  <2>2. UNCHANGED <<pc, published, failures>> /\ objs[w] # Nil
          /\ objs' = [objs EXCEPT ![w] = Nil]
    BY <2>1 DEF DeleteWorkload, memory, bounds
  <2> SUFFICES ASSUME failures = 0, published # Nil, NEW v \in WorkloadNames
               PROVE  Cared(v)'
    BY <2>2 DEF LatestInv
  <2>3. podQueue' = podQueue \cup Events /\ UNCHANGED podReq
    BY <2>1, <2>2 DEF DeleteWorkload, PodFollows, LatestInv
  <2>4. CASE v = w
    <3>1. objs'[v] = Nil /\ v \in Events
      BY <1>0, <2>2, <2>4 DEF Events, WorkloadNames
    <3> QED
      BY <2>3, <3>1 DEF Cared
  <2>5. CASE v # w
    <3>1. objs'[v] = objs[v]
      BY <1>0, <2>2, <2>5 DEF WorkloadNames
    <3> QED
      BY <2>2, <2>3, <3>1 DEF Cared, LatestInv
  <2> QED
    BY <2>4, <2>5
<1>3. CASE \E w \in WorkloadNames : PodEvent(w) \/ PodIgnore(w) \/ PodTimer(w)
  BY <1>3 DEF PodEvent, PodIgnore, PodTake, PodTimer, vars, memory, bounds, LatestInv,
     Cared
<1>4. CASE \E w \in WorkloadNames : PodDequeue(w)
  BY <1>4, WorkloadAssumption, NilAssumption DEF PodDequeue, PodTake, vars, memory, bounds,
     LatestInv, Cared, PodTypeOK, WorkloadNames
<1>5. CASE PodReported \/ PodLock \/ PodGetNotFound
  BY <1>5 DEF PodReported, PodLock, PodGetNotFound, vars, memory, bounds, LatestInv, Cared
<1>6. CASE PodGetFound
  BY <1>6 DEF PodGetFound, PodReturn, PodDone, vars, memory, bounds, LatestInv, Cared
<1>7. CASE PodRecreate
  <2>1. /\ podReq \in WorkloadNames /\ published # Nil /\ podSpec = published[podReq]
    BY <1>7 DEF PodRecreate, OperatorInv, PodCarries, PodHoldsSharedInfo
  <2>2. UNCHANGED <<pc, published, failures>> /\ podQueue \subseteq podQueue'
    BY <1>7 DEF PodRecreate, PodReturn, Others
  <2>3. objs' = [objs EXCEPT ![podReq] = published[podReq]]
    BY <1>7, <2>1 DEF PodRecreate, Recreated
  <2> SUFFICES ASSUME failures = 0, NEW v \in WorkloadNames PROVE Cared(v)'
    BY <2>2 DEF LatestInv
  <2>4. CASE v = podReq
    <3>1. objs'[v] = published[v]
      BY <1>0, <2>1, <2>3, <2>4 DEF WorkloadNames
    <3> QED
      BY <2>2, <3>1 DEF Cared
  <2>5. CASE v # podReq
    <3>1. objs'[v] = objs[v]
      BY <1>0, <2>1, <2>3, <2>5 DEF WorkloadNames
    <3> QED
      BY <2>1, <2>2, <2>5, <3>1 DEF Cared, LatestInv
  <2> QED
    BY <2>4, <2>5
<1>8. CASE PodGetFails \/ PodRecreateFails
  <2>1. failures' = failures + 1 /\ UNCHANGED <<pc, published>>
    BY <1>8 DEF PodGetFails, PodRecreateFails, PodReturnError, Others
  <2> QED
    BY <1>0, <2>1 DEF LatestInv
<1>9. CASE UNCHANGED operatorVars
  BY <1>9 DEF operatorVars, podVars, vars, memory, bounds, LatestInv, Cared
<1> QED
  BY <1>1, <1>2, <1>3, <1>4, <1>5, <1>6, <1>7, <1>8, <1>9
  DEF OperatorNext, Workers, PodReconcile

\* At rest, no workload waits for either reconciler.
LEMMA LatestHolds == OperatorInv /\ PodTypeOK /\ LatestInv => WorkloadsAreLatest
<1> SUFFICES ASSUME OperatorInv, PodTypeOK, LatestInv, failures = 0, SettledClean,
                    PodSettled, published # Nil
             PROVE  WorkloadObjs = [w \in WorkloadNames |-> published[w]]
  BY DEF WorkloadsAreLatest
<1>1. podReq = Nil /\ podQueue = {} /\ pc = "idle"
  BY DEF PodTypeOK, PodSettled, SettledClean, Settled
<1>2. \A w \in WorkloadNames : objs[w] = published[w]
  BY <1>1, WorkloadAssumption, NilAssumption DEF LatestInv, Cared, ToApply, ApplySteps, WorkloadNames
<1> QED
  BY <1>2 DEF WorkloadObjs

\* Once both workers rest and no call has failed, the workloads are the published
\* ones, whatever was deleted, edited or killed on the way.
THEOREM LatestWorkloads == OperatorSpec => []WorkloadsAreLatest
  BY LatestHolds, OperatorInvInit, OperatorStep, PodTypeInit, PodTypeStep, LatestInit,
     LatestStep, PTL DEF OperatorSpec

-----------------------------------------------------------------------------
(***************************************************************************)
(* Agreement in the whole process.                                         *)
(***************************************************************************)

\* What the pod reconciler writes is not what agreement is about; what it reports
\* only adds to the levels that fail.
LEMMA OperatorAgreementStep ==
  AgreementInv /\ OperatorInv /\ [OperatorNext]_operatorVars => AgreementInv'
<1> SUFFICES ASSUME AgreementInv, OperatorInv, [OperatorNext]_operatorVars
             PROVE  AgreementInv'
  OBVIOUS
<1>1. CASE [Next]_vars
  BY <1>1, AgreementStep
<1>2. CASE PodTouches
  <2>1. TypeInv'
    BY OperatorTypeStep
  <2>2. failing' = {} => failing = {}
    BY <1>2 DEF PodTouches
  <2> QED
    BY <1>2, <2>1, <2>2 DEF PodTouches, Others, users, local, AgreementInv,
       FreshInstall, FreshNetwork, InstallAgreed, NetworkAgreed
<1> QED
  BY <1>1, <1>2, StepKinds

\* Beside the pod reconciler, its failures and the deletions it repairs, the install
\* reconciler still drops no edit in silence.
THEOREM OperatorAgreement == OperatorSpec => []QuiescentAgreement
<1>1. OperatorInit => AgreementInv
  BY AgreementInit DEF OperatorInit
<1>2. AgreementInv => QuiescentAgreement
  BY AgreementHolds
<1> QED
  BY <1>1, <1>2, OperatorInvInit, OperatorStep, OperatorAgreementStep, PTL
  DEF OperatorSpec
=============================================================================
